---------------------------- MODULE Spec2Model ----------------------------
(***************************************************************************)
(* Ridge-regression encoding and hyperparameter search of                  *)
(* Agnessa14/Mid-level-features:                                           *)
(*   src/EEG/Encoding/hyperparameter_optimization.py      (impl = "EEG")   *)
(*   src/CNN/Encoding/hyperparameter_optimization_cnn.py  (impl = "CNN")   *)
(*                                                                         *)
(* Numbers are exact rationals <<n, d>> (d > 0, lowest terms); a matrix is *)
(* a sequence of rows.  The only inexact operation is the square root,     *)
(* which is quantised to multiples of 1/SqrtScale (exact on perfect        *)
(* squares).                                                               *)
(***************************************************************************)
EXTENDS Integers, Sequences, FiniteSets, TLC

(***************************************************************************)
(* Bounds of the model.                                                    *)
(***************************************************************************)
\* samples (rows) of every split
NSamp == 3
\* output channels (columns of the response)
NChan == 2
\* timepoints (EEG) or layers (deep network) swept
NTP == 2
\* length of the penalty grid
NAlpha == 2
\* resolution of the floating-point results that are not exact rationals
\* (square roots, the correlation quotient): multiples of 1/SqrtScale
SqrtScale == 16

(***************************************************************************)
(* Rational arithmetic.                                                    *)
(***************************************************************************)
Abs(x) == IF x < 0 THEN -x ELSE x

RECURSIVE GCD(_, _)
GCD(x, y) == IF y = 0 THEN x ELSE GCD(y, x % y)

\* the rational n/d in lowest terms with a positive denominator
Rat(n, d) ==
    LET g == GCD(Abs(n), Abs(d))
        s == IF d < 0 THEN -1 ELSE 1
    IN  <<(s * n) \div g, (s * d) \div g>>

Zero == <<0, 1>>
One == <<1, 1>>
Int2Rat(i) == <<i, 1>>

RAdd(p, q) ==
    LET g == GCD(p[2], q[2])
    IN  Rat(p[1] * (q[2] \div g) + q[1] * (p[2] \div g), p[2] * (q[2] \div g))
RNeg(p) == <<-p[1], p[2]>>
RSub(p, q) == RAdd(p, RNeg(q))
RMul(p, q) ==
    LET g1 == GCD(Abs(p[1]), q[2])
        g2 == GCD(Abs(q[1]), p[2])
    IN  IF p[1] = 0 \/ q[1] = 0 THEN Zero
        ELSE <<(p[1] \div g1) * (q[1] \div g2), (p[2] \div g2) * (q[2] \div g1)>>
RInv(p) == IF p[1] < 0 THEN <<-p[2], -p[1]>> ELSE <<p[2], p[1]>>
RDiv(p, q) == RMul(p, RInv(q))
RLt(p, q) == RSub(p, q)[1] < 0
RLe(p, q) == RSub(p, q)[1] <= 0
RAbs(p) == <<Abs(p[1]), p[2]>>

\* least k in lo..hi with k * k >= v, by bisection (hi * hi >= v on entry)
RECURSIVE CeilSqrtIn(_, _, _)
CeilSqrtIn(v, lo, hi) ==
    IF lo >= hi THEN hi
    ELSE LET mid == (lo + hi) \div 2
         IN  IF mid * mid >= v THEN CeilSqrtIn(v, lo, mid)
             ELSE CeilSqrtIn(v, mid + 1, hi)
\* the least k with k * k >= v, for 0 <= v < 2^31
CeilSqrt(v) == CeilSqrtIn(v, 0, IF v < 46340 THEN v ELSE 46340)

\* n * m / d rounded up, for n >= 0, computed without a large product
MulDivCeil(n, m, d) ==
    LET q == n \div d
        r == n % d
    IN  q * m + ((r * m + d - 1) \div d)

\* np.sqrt / torch.sqrt / ndarray.std's root: exact when p is the square of
\* a rational, else rounded up to the next multiple of 1/SqrtScale
RSqrt(p) ==
    LET rn == CeilSqrt(p[1])
        rd == CeilSqrt(p[2])
    IN  IF rn * rn = p[1] /\ rd * rd = p[2] THEN <<rn, rd>>
        ELSE Rat(CeilSqrt(MulDivCeil(p[1], SqrtScale * SqrtScale, p[2])),
                 SqrtScale)

(***************************************************************************)
(* Matrices: sequences of rows of rationals.                               *)
(***************************************************************************)
Rows(M) == Len(M)
Cols(M) == Len(M[1])
\* the vector with entries f[1], ..., f[n], built as an explicit tuple
Vec(f) == f \o <<>>
\* the matrix with entries f[i][j], built as explicit tuples
Mat(f) == Vec([i \in DOMAIN f |-> Vec(f[i])])

RECURSIVE RSumTo(_, _)
\* f[1] + ... + f[k]
RSumTo(f, k) == IF k = 0 THEN Zero ELSE RAdd(RSumTo(f, k - 1), f[k])
RSum(f) == RSumTo(f, Len(f))

\* X.t()
Transpose(M) == Mat([i \in 1..Cols(M) |-> [j \in 1..Rows(M) |-> M[j][i]]])
\* torch.matmul(A, B) for conforming shapes
MatMul(A, B) ==
    Mat([i \in 1..Rows(A) |-> [j \in 1..Cols(B) |-> RSum(Vec([k \in 1..Cols(A) |->
          RMul(A[i][k], B[k][j])]))]])
\* torch.vstack((A, B))
VStack(A, B) == A \o B
\* np.eye(n)
Eye(n) == Mat([i \in 1..n |-> [j \in 1..n |-> IF i = j THEN One ELSE Zero]])
\* np.zeros((r, c))
Zeros(r, c) == Mat([i \in 1..r |-> [j \in 1..c |-> Zero]])
\* M * s for a scalar s
Scale(M, s) == Mat([i \in 1..Rows(M) |-> [j \in 1..Cols(M) |-> RMul(M[i][j], s)]])

RECURSIVE Det(_)
\* the matrix without row r and column c
Minor(M, r, c) ==
    Mat([i \in 1..Rows(M) - 1 |-> [j \in 1..Cols(M) - 1 |->
          M[IF i < r THEN i ELSE i + 1][IF j < c THEN j ELSE j + 1]]])
\* determinant, by expansion along the first row
Det(M) ==
    IF Rows(M) = 1 THEN M[1][1]
    ELSE RSum(Vec([j \in 1..Cols(M) |->
          RMul(IF j % 2 = 1 THEN M[1][j] ELSE RNeg(M[1][j]),
                      Det(Minor(M, 1, j)))]))
\* the leading k x k block
Leading(M, k) == Mat([i \in 1..k |-> [j \in 1..k |-> M[i][j]]])
\* a symmetric matrix is positive definite iff every leading minor is > 0
PosDef(M) == \A k \in 1..Rows(M) : Det(Leading(M, k))[1] > 0
Singular(M) == Det(M)[1] = 0
\* the unique B with G * B = R, for a nonsingular G (Cramer's rule)
LinSolve(G, R) ==
    LET dg == Det(G)
    IN  Mat([i \in 1..Rows(G) |-> [k \in 1..Cols(R) |->
          RDiv(Det(Mat([r \in 1..Rows(G) |-> [c \in 1..Cols(G) |->
            IF c = i THEN R[r][k] ELSE G[r][c]]])),
                   dg)]])
IsZeroMat(M) == \A i \in 1..Rows(M) : \A j \in 1..Cols(M) : M[i][j][1] = 0
\* squared Frobenius norm
Frob2(M) ==
    RSum(Vec([i \in 1..Rows(M) |-> RSum(Vec([j \in 1..Cols(M) |->
          RMul(M[i][j], M[i][j])]))]))
\* Moore-Penrose inverse of A, for rank(A) <= 2 or full rank
Pinv(A) ==
    LET At == Transpose(A)
    IN  IF IsZeroMat(A) THEN Zeros(Cols(A), Rows(A))
        ELSE IF ~Singular(MatMul(At, A)) THEN LinSolve(MatMul(At, A), At)
        ELSE IF ~Singular(MatMul(A, At))
             THEN Transpose(LinSolve(MatMul(A, At), A))
        ELSE Scale(At, RInv(Frob2(A)))

(***************************************************************************)
(* OLS_pytorch: the ridge solver of both scripts.                          *)
(***************************************************************************)
Impls == {"EEG", "CNN"}
Solvers == {"cholesky", "lstsq", "solve"}

\* OLS_pytorch.__init__: coefficients start as the empty list
OLS_pytorch(intercept, alpha) ==
    [coefficients |-> <<>>, intercept |-> intercept, alpha |-> alpha]

\* concatenate_ones: a column of ones in front of X
concatenate_ones(X) == Mat([i \in 1..Rows(X) |-> [j \in 1..Cols(X) + 1 |->
      IF j = 1 THEN One ELSE X[i][j - 1]]])

\* the design matrix fit works on
FitDesign(self, X) == IF self.intercept THEN concatenate_ones(X) ELSE X

\* np.eye(columns), with entry [0, 0] zeroed in the deep-network script only
PenaltyEye(impl, columns) ==
    IF impl = "CNN"
    THEN Mat([i \in 1..columns |-> [j \in 1..columns |->
          IF i = j /\ i # 1 THEN One ELSE Zero]])
    ELSE Eye(columns)

\* variant: the identity block is stacked without the sqrt(alpha) factor
PenaltyMatrixUnscaled(impl, self, columns) == PenaltyEye(impl, columns)

\* penalty_matrix * np.sqrt(self.alpha)
PenaltyMatrix(impl, self, columns) ==
    Scale(PenaltyEye(impl, columns), RSqrt(self.alpha))

\* torch.linalg.cholesky raises when it meets a pivot that is not positive:
\* always when XtX is not positive definite, and in float32 also when
\* rounding makes an ill-conditioned XtX numerically indefinite (rounding)
CholeskyRaises(XtX, rounding) == rounding \/ ~PosDef(XtX)
\* torch.linalg.solve raises on a singular matrix
SolveRaises(XtX) == Singular(XtX)

\* torch.linalg.lstsq(Xty, XtX): argmin_Z |Xty Z - XtX|, then transposed
LstsqCoefficients(XtX, Xty) == Transpose(MatMul(Pinv(Xty), XtX))

\* self.coefficients after the solver branch of fit
FitCoefficients(impl, self, solver, XtX, Xty) ==
    CASE solver = "cholesky" -> LinSolve(XtX, Xty)
      [] solver = "solve" -> LinSolve(XtX, Xty)
      [] solver = "lstsq" ->
           IF impl = "EEG" THEN self.coefficients
           ELSE LstsqCoefficients(XtX, Xty)
      [] OTHER -> self.coefficients

\* OLS_pytorch.fit: the object after the call, the call's locals, and the
\* exception it raised ("none" when it returned)
fit(impl, self, X, y, solver, rounding) ==
    LET X1 == FitDesign(self, X)
        columns == Cols(X1)
        columns_y == Cols(y)
        penalty_matrix == PenaltyMatrix(impl, self, columns)
        zero_matrix == Zeros(columns, columns_y)
        Xa == VStack(X1, penalty_matrix)
        ya == VStack(y, zero_matrix)
        XtX == MatMul(Transpose(Xa), Xa)
        Xty == MatMul(Transpose(Xa), ya)
        raises == \/ solver = "cholesky" /\ CholeskyRaises(XtX, rounding)
                  \/ solver = "solve" /\ SolveRaises(XtX)
    IN  [self |-> IF raises THEN self
                  ELSE [self EXCEPT !.coefficients =
                            FitCoefficients(impl, self, solver, XtX, Xty)],
         penalty_matrix |-> penalty_matrix,
         XtX |-> XtX,
         Xty |-> Xty,
         raised |-> IF raises THEN "LinAlgError" ELSE "none"]

\* np.squeeze: axes of length one are dropped
Squeeze(M) ==
    IF Rows(M) > 1 /\ Cols(M) > 1 THEN M
    ELSE IF Rows(M) > 1 THEN Vec([i \in 1..Rows(M) |-> M[i][1]])
    ELSE IF Cols(M) > 1 THEN M[1]
    ELSE M[1][1]

\* torch.matmul(entry, self.coefficients) raises on the initial empty list
\* (TypeError) and on shapes that do not conform (RuntimeError)
MatMulRaises(entry, coefficients) ==
    IF coefficients = <<>> THEN "TypeError"
    ELSE IF Cols(entry) # Rows(coefficients) THEN "RuntimeError"
    ELSE "none"

\* OLS_pytorch.predict
predict(self, entry) ==
    LET e1 == concatenate_ones(entry)
        raised == MatMulRaises(e1, self.coefficients)
    IN  [raised |-> raised,
         value |-> IF raised = "none"
                   THEN Squeeze(MatMul(e1, self.coefficients)) ELSE <<>>]

\* the denominator score divides the summed squares by
ScoreElements(y, channelwise) ==
    IF channelwise THEN Cols(y) ELSE Rows(y) * Cols(y)

\* OLS_pytorch.score: RMSE per channel (channelwise) or one scalar
score(self, entry, y, channelwise) ==
    LET e1 == concatenate_ones(entry)
        raised == MatMulRaises(e1, self.coefficients)
        yhat == MatMul(e1, self.coefficients)
        sq(i, c) == LET d == RSub(y[i][c], yhat[i][c]) IN RMul(d, d)
        colsums == Vec([c \in 1..Cols(y) |-> RSum(Vec([i \in 1..Rows(y) |->
              sq(i, c)]))])
        n_elements == Int2Rat(ScoreElements(y, channelwise))
    IN  [raised |-> raised,
         value |->
           IF raised # "none" THEN <<>>
           ELSE IF channelwise
           THEN Vec([c \in 1..Cols(y) |-> RSqrt(RDiv(colsums[c], n_elements))])
           ELSE RSqrt(RDiv(RSum(colsums), n_elements))]

\* a floating-point quotient: p rounded to the nearest multiple of
\* 1/SqrtScale
RRound(p) ==
    LET n == Abs(p[1])
        d == p[2]
        k == (n \div d) * SqrtScale + (2 * (n % d) * SqrtScale + d) \div (2 * d)
    IN  Rat(IF p[1] < 0 THEN -k ELSE k, SqrtScale)

\* ndarray.std(axis=0): the population standard deviation (ddof = 0)
StdDivisor(n) == n
\* vectorized_correlation, for x and y of the same two-dimensional shape.
\* The 1e-8 added to each standard deviation is below the resolution of the
\* model: it only makes the ratio 0 instead of 0/0 for a constant column.
vectorized_correlation(x, y) ==
    LET n == Rows(x)
        mean(m) == Vec([c \in 1..Cols(m) |-> RDiv(RSum(Vec([i \in 1..n |->
              m[i][c]])), Int2Rat(n))])
        centered(m, mu) == Mat([i \in 1..n |-> [c \in 1..Cols(m) |->
              RSub(m[i][c], mu[c])]])
        centered_x == centered(x, mean(x))
        centered_y == centered(y, mean(y))
        sumprod(u, v, c) == RSum(Vec([i \in 1..n |-> RMul(u[i][c], v[i][c])]))
        covariance == Vec([c \in 1..Cols(x) |-> sumprod(centered_x, centered_y, c)])
        std(u, c) == RSqrt(RDiv(sumprod(u, u, c), Int2Rat(StdDivisor(n))))
    IN  Vec([c \in 1..Cols(x) |-> IF covariance[c][1] = 0 THEN Zero
           ELSE RRound(RDiv(RDiv(covariance[c], Int2Rat(n - 1)),
                            RMul(std(centered_x, c), std(centered_y, c))))])

(***************************************************************************)
(* Inputs.  Feature matrices have one feature column; a response has       *)
(* NChan channels; every split has NSamp rows.                             *)
(***************************************************************************)
XPatterns == {"ramp", "const"}
\* a samples x 1 feature matrix; "const" is collinear with the intercept
XPattern(p) ==
    Mat([i \in 1..NSamp |-> [j \in 1..1 |-> Int2Rat(IF p = "ramp" THEN i ELSE 1)]])

\* a samples x channels response matrix
YPattern(p) ==
    Mat([i \in 1..NSamp |-> [c \in 1..NChan |-> Int2Rat(CASE p = "lin" -> c * i
                                              [] p = "neg" -> 0 - c * i
                                              [] p = "alt" -> (i + c) % 2
                                              [] OTHER -> 0)]])
\* the (training, validation) responses of one timepoint or layer
YPairs == {<<"lin", "lin">>, <<"lin", "neg">>, <<"alt", "lin">>,
           <<"zero", "alt">>}

\* alpha_space: np.logspace(-5, 10, 10) is a strictly increasing geometric
\* grid of positive penalties; the model's grid is 1, 4, 16, ...
RECURSIVE Pow4(_)
Pow4(k) == IF k = 0 THEN 1 ELSE 4 * Pow4(k - 1)
alpha_space == Vec([k \in 1..NAlpha |-> Int2Rat(Pow4(k - 1))])
Range(f) == {f[k] : k \in DOMAIN f}

\* explained_variance of a layer's PCA: positive, one weight per channel
WeightPatterns == {"flat", "decreasing"}
ExplainedVariance(p) ==
    Vec([c \in 1..NChan |-> Int2Rat(IF p = "flat" THEN 1 ELSE NChan + 1 - c)])
\* one explained_variance.pkl per layer: the same pattern in every layer, or
\* ("mixed") flat in the odd layers and decreasing in the even ones
WeightLayouts == WeightPatterns \cup {"mixed"}
LayerVariance(w, i) ==
    ExplainedVariance(IF w # "mixed" THEN w
                      ELSE IF i % 2 = 1 THEN "flat" ELSE "decreasing")

VARIABLES
    impl,            \* which script's solver and search
    X_train, X_val,  \* feature matrices of the current feature
    y_train, y_val,  \* responses, one matrix per timepoint or layer
    explained_var,   \* deep network: per-layer channel weights
    regression,      \* the OLS_pytorch object
    penalty_matrix, XtX, Xty,   \* locals of the latest fit call
    call,            \* the latest solver call, what it raised and returned
    prediction,      \* value returned by the latest predict
    pc, tp, a,       \* position of hyperparameter_tuning
    rmse, corr,      \* the arrays named rmse and corr
    rmse_scores, corr_scores,       \* deep network: per-layer dictionaries
    rmse_avg_chan, corr_avg_chan,   \* channel-reduced scores
    writes,          \* history: the <<tp, a>> pairs whose cells were assigned
    output,          \* the result dictionary of the feature
    n_perm,          \* statistics scripts: the number of resamples
    rng,             \* state of the seeded random generator
    results_dict,    \* bootstrapping_CI: per feature, subjects x timepoints
    bpc, feature, btp, perm,        \* position of bootstrapping_CI
    bt_data, bt_data_peaks,         \* bootstrap draws
    feature_results, ci_dict_all,   \* accuracy intervals, peak triples
    peak,            \* observed peak latency of the current feature
    feature1, feature2,             \* position of the pairwise loop
    peak_A, peak_B, feature_diff,   \* locals of the pairwise loop
    pairwise_p,      \* the pairwise results
    tail,            \* permutation_test: 'both', 'right' or another string
    flips,           \* which outcome the random sign flips take
    results_f_vid, results_f_img,   \* the two groups, subjects x timepoints
    ppc, permutation,               \* position of permutation_test
    stat_map,        \* permutations x timepoints
    p_values,        \* uncorrected p-values, one per timepoint
    stats_results,   \* the result dictionary of the feature
    prep_pc,         \* position of feature_extraction
    split_data,      \* per video: 0 training, 1 validation, 2 test
    prep_feature, pca_method,       \* the feature, the kind of PCA
    scaler, pca_image,              \* locals of pca: the fitted objects
    scaled_sets,     \* locals of pca: scaled_train, scaled_test, scaled_val
    estimator_calls, \* history: the fit and transform calls, in order
    datasets,        \* the list built for the feature
    pca_features,    \* the saved dictionary, the entry of the feature
    X_prep           \* load_features: X_train, X_val, X_test as read

prepVars == <<prep_pc, split_data, prep_feature, pca_method, scaler,
              pca_image, scaled_sets, estimator_calls, datasets,
              pca_features, X_prep>>
dataVars == <<impl, X_train, X_val, y_train, y_val, explained_var, prepVars>>
solverVars == <<regression, penalty_matrix, XtX, Xty, call, prediction>>
sweepVars == <<pc, tp, a, rmse, corr, rmse_scores, corr_scores,
               rmse_avg_chan, corr_avg_chan, writes, output>>
bootVars == <<n_perm, rng, results_dict, bpc, feature, btp, perm, bt_data,
              bt_data_peaks, feature_results, ci_dict_all, peak, feature1,
              feature2, peak_A, peak_B, feature_diff, pairwise_p>>
permVars == <<tail, flips, results_f_vid, results_f_img, ppc, permutation,
              stat_map, p_values, stats_results>>
statsVars == <<bootVars, permVars>>
vars == <<dataVars, solverVars, sweepVars, statsVars>>

Call(op, solver, channelwise, raised, value) ==
    [op |-> op, solver |-> solver, channelwise |-> channelwise,
     raised |-> raised, value |-> value]
NoCall == Call("none", "none", FALSE, "none", <<>>)

\* feature_extraction is not running
PrepIdle ==
    /\ prep_pc = "idle"
    /\ split_data = <<>>
    /\ prep_feature = "none" /\ pca_method = "none"
    /\ scaler = <<>> /\ pca_image = <<>> /\ scaled_sets = <<>>
    /\ estimator_calls = <<>>
    /\ datasets = <<>> /\ pca_features = <<>> /\ X_prep = <<>>
\* hyperparameter_tuning is not running
SweepIdle ==
    /\ impl = "none"
    /\ X_train = <<>> /\ X_val = <<>> /\ y_train = <<>> /\ y_val = <<>>
    /\ explained_var = <<>>
    /\ regression = <<>>
    /\ penalty_matrix = <<>> /\ XtX = <<>> /\ Xty = <<>>
    /\ call = NoCall
    /\ prediction = <<>>
    /\ pc = "idle" /\ tp = 1 /\ a = 1
    /\ rmse = <<>> /\ corr = <<>> /\ rmse_scores = <<>> /\ corr_scores = <<>>
    /\ rmse_avg_chan = <<>> /\ corr_avg_chan = <<>>
    /\ writes = <<>>
    /\ output = <<>>
\* the encoding scripts are not running
EncodingIdle == SweepIdle /\ PrepIdle
\* bootstrapping_CI is not running
BootLocalsIdle ==
    /\ results_dict = <<>>
    /\ bpc = "idle" /\ feature = 1 /\ btp = 1 /\ perm = 1
    /\ bt_data = <<>> /\ bt_data_peaks = <<>>
    /\ feature_results = <<>> /\ ci_dict_all = <<>>
    /\ peak = 0
    /\ feature1 = 1 /\ feature2 = 1
    /\ peak_A = 0 /\ peak_B = 0 /\ feature_diff = 0
    /\ pairwise_p = <<>>
BootIdle == n_perm = 0 /\ rng = 0 /\ BootLocalsIdle
\* no sign flips are drawn
NoFlips == [name |-> "none", vid |-> <<>>, img |-> <<>>]
\* permutation_test is not running
PermIdle ==
    /\ tail = "none" /\ flips = NoFlips
    /\ results_f_vid = <<>> /\ results_f_img = <<>>
    /\ ppc = "idle" /\ permutation = 1
    /\ stat_map = <<>> /\ p_values = <<>> /\ stats_results = <<>>

(***************************************************************************)
(* Spec: one OLS_pytorch object and the calls made on it.                  *)
(***************************************************************************)
Init ==
    /\ impl \in Impls
    /\ \E p \in XPatterns : X_train = XPattern(p) /\ X_val = XPattern(p)
    /\ \E p \in YPairs : /\ y_train = <<YPattern(p[1])>>
                         /\ y_val = <<YPattern(p[2])>>
    /\ explained_var = <<>>
    /\ \E intercept \in BOOLEAN, alpha \in {Zero} \cup Range(alpha_space) :
           regression = OLS_pytorch(intercept, alpha)
    /\ penalty_matrix = <<>> /\ XtX = <<>> /\ Xty = <<>>
    /\ call = NoCall
    /\ prediction = <<>>
    /\ pc = "api" /\ tp = 1 /\ a = 1
    /\ rmse = <<>> /\ corr = <<>> /\ rmse_scores = <<>> /\ corr_scores = <<>>
    /\ rmse_avg_chan = <<>> /\ corr_avg_chan = <<>>
    /\ writes = <<>>
    /\ output = <<>>
    /\ BootIdle
    /\ PermIdle
    /\ PrepIdle

\* regression.fit(X_train, y_train_tp, solver=solver)
Fit(solver, rounding) ==
    /\ pc = "api"
    /\ rounding => solver = "cholesky"
    /\ \E r \in {fit(impl, regression, X_train, y_train[tp], solver, rounding)} :
        /\ regression' = r.self
        /\ penalty_matrix' = r.penalty_matrix
        /\ XtX' = r.XtX
        /\ Xty' = r.Xty
        /\ call' = Call("fit", solver, FALSE, r.raised, <<>>)
        /\ prediction' = <<>>
        /\ UNCHANGED <<statsVars, dataVars, sweepVars>>

\* regression.predict(entry=X_val)
Predict ==
    /\ pc = "api"
    /\ call.op # "none"
    /\ \E r \in {predict(regression, X_val)} :
        /\ prediction' = r.value
        /\ call' = Call("predict", call.solver, FALSE, r.raised, r.value)
        /\ UNCHANGED <<statsVars, dataVars, sweepVars, regression, penalty_matrix, XtX,
                       Xty>>

\* regression.score(entry=X_val, y=y_val_tp, channelwise=channelwise)
Score(channelwise) ==
    /\ pc = "api"
    /\ call.op # "none"
    /\ \E r \in {score(regression, X_val, y_val[tp], channelwise)} :
        /\ call' = Call("score", call.solver, channelwise, r.raised, r.value)
        /\ UNCHANGED <<statsVars, dataVars, sweepVars, regression, penalty_matrix, XtX,
                       Xty, prediction>>

\* vectorized_correlation(prediction, y_val_tp)
Correlation ==
    /\ pc = "api"
    /\ call.op = "predict" /\ call.raised = "none"
    /\ call' = Call("correlation", call.solver, FALSE, "none",
                    vectorized_correlation(prediction, y_val[tp]))
    /\ UNCHANGED <<statsVars, dataVars, sweepVars, regression, penalty_matrix, XtX, Xty,
                   prediction>>

Next ==
    \/ \E solver \in Solvers, rounding \in BOOLEAN : Fit(solver, rounding)
    \/ Predict
    \/ \E channelwise \in BOOLEAN : Score(channelwise)
    \/ Correlation

Spec == Init /\ [][Next]_vars

(***************************************************************************)
(* SweepSpec: hyperparameter_tuning for one feature.  Every (timepoint or  *)
(* layer, penalty) pair is fitted, scored and recorded, then the best      *)
(* penalties are selected.                                                 *)
(***************************************************************************)
\* np.zeros((t, n, c))
\* variant: the arrays lack the row of the last penalty
Zeros3Short(t, n, c) == Vec([i \in 1..t |-> Zeros(n - 1, c)])
Zeros3(t, n, c) == Vec([i \in 1..t |-> Zeros(n, c)])

\* np.mean(scores, axis=2): the unweighted mean over channels
ChannelMean(scores) ==
    Mat([t \in 1..Len(scores) |-> [k \in 1..Rows(scores[1]) |->
          RDiv(RSum(scores[t][k]), Int2Rat(Len(scores[t][k])))]])

\* variant: the weighted sum is not divided by total_variance
ChannelWeightedSum(scores, weights) ==
    Mat([i \in 1..Len(scores) |-> [k \in 1..Rows(scores[1][1]) |->
          RSum(Vec([c \in 1..Len(weights[i]) |->
            RMul(scores[i][1][k][c], weights[i][c])]))]])

\* np.sum(scores_it * explained_var, axis=1) / total_variance, per layer
ChannelWeighted(scores, weights) ==
    Mat([i \in 1..Len(scores) |-> [k \in 1..Rows(scores[1][1]) |->
          RDiv(RSum(Vec([c \in 1..Len(weights[i]) |->
            RMul(scores[i][1][k][c], weights[i][c])])),
               RSum(weights[i]))]])

RECURSIVE ArgMinLastTo(_, _)
\* variant: index of the last smallest entry among v[1..k]
ArgMinLastTo(v, k) ==
    IF k = 1 THEN 1
    ELSE LET b == ArgMinLastTo(v, k - 1)
         IN  IF RLe(v[k], v[b]) THEN k ELSE b

RECURSIVE ArgMinTo(_, _)
\* index of the first smallest entry among v[1..k]
ArgMinTo(v, k) ==
    IF k = 1 THEN 1
    ELSE LET b == ArgMinTo(v, k - 1)
         IN  IF RLt(v[k], v[b]) THEN k ELSE b
\* ndarray.argmin: the first index of the minimum
ArgMin(v) == ArgMinTo(v, Len(v))

RECURSIVE ArgMaxTo(_, _)
\* index of the first largest entry among v[1..k]
ArgMaxTo(v, k) ==
    IF k = 1 THEN 1
    ELSE LET b == ArgMaxTo(v, k - 1)
         IN  IF RLt(v[b], v[k]) THEN k ELSE b
\* ndarray.argmax: the first index of the maximum
ArgMax(v) == ArgMaxTo(v, Len(v))

\* np.mean(m, axis=0): the mean over timepoints or layers, per penalty
MeanAxis0(m) ==
    Vec([k \in 1..Cols(m) |-> RDiv(RSum(Vec([t \in 1..Rows(m) |->
          m[t][k]])), Int2Rat(Rows(m)))])

\* variant: every timepoint takes the first timepoint's selection
BestAlphaShared(idx) == Vec([t \in 1..Len(idx) |-> alpha_space[idx[1]]])
\* variant: the aggregate is the first timepoint's selection
BestAlphaFirstTp(avg_chan) == alpha_space[ArgMin(avg_chan[1])]

\* best alpha for each tp
BestAlphaPerTp(idx) == Vec([t \in 1..Len(idx) |-> alpha_space[idx[t]]])
\* best alpha on average
BestAlphaAverageRmse(avg_chan) == alpha_space[ArgMin(MeanAxis0(avg_chan))]
BestAlphaAverageCorr(avg_chan) == alpha_space[ArgMax(MeanAxis0(avg_chan))]

\* the channel-reduced scores selection works on
ReduceChannels(scores, scores_by_layer) ==
    IF impl = "EEG" THEN ChannelMean(scores)
    ELSE ChannelWeighted(scores_by_layer, explained_var)

SweepInit ==
    /\ impl \in Impls
    /\ \E p \in XPatterns : X_train = XPattern(p) /\ X_val = XPattern(p)
    /\ \E ps \in [1..NTP -> YPairs] :
          /\ y_train = Vec([t \in 1..NTP |-> YPattern(ps[t][1])])
          /\ y_val = Vec([t \in 1..NTP |-> YPattern(ps[t][2])])
    /\ IF impl = "CNN"
       THEN \E w \in WeightLayouts :
               explained_var = Vec([i \in 1..NTP |-> LayerVariance(w, i)])
       ELSE explained_var = <<>>
    /\ regression = <<>>
    /\ penalty_matrix = <<>> /\ XtX = <<>> /\ Xty = <<>>
    /\ call = NoCall
    /\ prediction = <<>>
    /\ pc = "fit" /\ tp = 1 /\ a = 1
    /\ rmse = IF impl = "EEG" THEN Zeros3(NTP, NAlpha, NChan) ELSE <<>>
    /\ corr = IF impl = "EEG" THEN Zeros3(NTP, NAlpha, NChan) ELSE <<>>
    /\ rmse_scores = <<>> /\ corr_scores = <<>>
    /\ rmse_avg_chan = <<>> /\ corr_avg_chan = <<>>
    /\ writes = <<>>
    /\ output = <<>>
    /\ BootIdle
    /\ PermIdle
    /\ PrepIdle

\* regression = OLS_pytorch(alpha=alpha); try: regression.fit(..., "cholesky")
SweepFit(rounding) ==
    /\ pc = "fit"
    /\ \E r \in {fit(impl, OLS_pytorch(TRUE, alpha_space[a]), X_train,
                     y_train[tp], "cholesky", rounding)} :
        /\ regression' = r.self
        /\ penalty_matrix' = r.penalty_matrix
        /\ XtX' = r.XtX
        /\ Xty' = r.Xty
        /\ call' = Call("fit", "cholesky", FALSE, r.raised, <<>>)
        /\ pc' = IF r.raised = "none" THEN "score" ELSE "except"
    \* the deep-network search allocates rmse and corr at the start of a layer
    /\ IF impl = "CNN" /\ a = 1
       THEN /\ rmse' = Zeros3(1, NAlpha, Cols(y_train[tp]))
            /\ corr' = Zeros3(1, NAlpha, Cols(y_train[tp]))
       ELSE UNCHANGED <<rmse, corr>>
    /\ UNCHANGED <<statsVars, dataVars, prediction, tp, a, rmse_scores, corr_scores,
                   rmse_avg_chan, corr_avg_chan, writes, output>>

\* variant: the Cholesky failure leaves the sweep without a second fit
SweepExceptReraise ==
    /\ pc = "except"
    /\ pc' = "raised"
    /\ UNCHANGED <<statsVars, dataVars, solverVars, tp, a, rmse, corr, rmse_scores,
                   corr_scores, rmse_avg_chan, corr_avg_chan, writes, output>>

\* except Exception: report, then regression.fit(..., solver="solve"); what
\* this second fit raises leaves hyperparameter_tuning
SweepExcept ==
    /\ pc = "except"
    /\ \E r \in {fit(impl, regression, X_train, y_train[tp], "solve", FALSE)} :
        /\ regression' = r.self
        /\ penalty_matrix' = r.penalty_matrix
        /\ XtX' = r.XtX
        /\ Xty' = r.Xty
        /\ call' = Call("fit", "solve", FALSE, r.raised, <<>>)
        /\ pc' = IF r.raised = "none" THEN "score" ELSE "raised"
    /\ UNCHANGED <<statsVars, dataVars, prediction, tp, a, rmse, corr, rmse_scores,
                   corr_scores, rmse_avg_chan, corr_avg_chan, writes, output>>

\* predict, score, correlate, write the pair's cells, move to the next pair
SweepScore ==
    /\ pc = "score"
    /\ \E p \in {predict(regression, X_val)},
          sc \in {score(regression, X_val, y_val[tp], TRUE)} :
        IF p.raised # "none" \/ sc.raised # "none"
        THEN /\ pc' = "raised"
             /\ call' = Call(IF p.raised # "none" THEN "predict" ELSE "score",
                             call.solver, TRUE,
                             IF p.raised # "none" THEN p.raised ELSE sc.raised,
                             <<>>)
             /\ UNCHANGED <<prediction, tp, a, rmse, corr, rmse_scores,
                            corr_scores, writes>>
        ELSE \E correlation \in {vectorized_correlation(p.value, y_val[tp])} :
             LET row == IF impl = "EEG" THEN tp ELSE 1
                 rmse1 == [rmse EXCEPT ![row][a] = sc.value]
                 corr1 == [corr EXCEPT ![row][a] = correlation]
                 lastA == a = Len(alpha_space)
             IN  /\ prediction' = p.value
                 /\ call' = Call("correlation", call.solver, FALSE, "none",
                                 correlation)
                 /\ rmse' = rmse1
                 /\ corr' = corr1
                 /\ writes' = Append(writes, <<tp, a>>)
                 /\ IF impl = "CNN" /\ lastA
                    THEN /\ rmse_scores' = Append(rmse_scores, rmse1)
                         /\ corr_scores' = Append(corr_scores, corr1)
                    ELSE UNCHANGED <<rmse_scores, corr_scores>>
                 /\ a' = IF lastA THEN 1 ELSE a + 1
                 /\ tp' = IF lastA /\ tp < Len(y_train) THEN tp + 1 ELSE tp
                 /\ pc' = IF lastA /\ tp = Len(y_train) THEN "select"
                          ELSE "fit"
    /\ UNCHANGED <<statsVars, dataVars, regression, penalty_matrix, XtX, Xty,
                   rmse_avg_chan, corr_avg_chan, output>>

\* reduce over channels, select per timepoint and on average, fill output
SweepSelect ==
    /\ pc = "select"
    /\ \E ravg \in {ReduceChannels(rmse, rmse_scores)},
          cavg \in {ReduceChannels(corr, corr_scores)} :
        /\ rmse_avg_chan' = ravg
        /\ corr_avg_chan' = cavg
        /\ output' =
             [rmse_score |-> rmse,
              correlation |-> corr,
              best_alpha_rmse |->
                  BestAlphaPerTp(Vec([t \in 1..Rows(ravg) |-> ArgMin(ravg[t])])),
              best_alpha_corr |->
                  BestAlphaPerTp(Vec([t \in 1..Rows(cavg) |-> ArgMax(cavg[t])])),
              best_alpha_a_rmse |-> BestAlphaAverageRmse(ravg),
              best_alpha_a_corr |-> BestAlphaAverageCorr(cavg)]
    /\ pc' = "done"
    /\ UNCHANGED <<statsVars, dataVars, solverVars, tp, a, rmse, corr, rmse_scores,
                   corr_scores, writes>>

SweepNext ==
    \/ \E rounding \in BOOLEAN : SweepFit(rounding)
    \/ SweepExcept
    \/ SweepScore
    \/ SweepSelect

SweepSpec == SweepInit /\ [][SweepNext]_vars

(***************************************************************************)
(* BootSpec: bootstrapping_CI.  Subjects are resampled with replacement    *)
(* by a seeded generator; accuracy intervals per timepoint, a peak-latency *)
(* triple per feature, and a peak-latency difference per pair of features. *)
(***************************************************************************)
\* subjects in list_sub
NSub == 3
\* features in feature_names
NFeat == 3

\* np.ceil of a rational, as an integer
Ceil(p) == -((-p[1]) \div p[2])
\* Python's round(): to the nearest integer, halves to the even neighbour
RoundHalfEven(p) ==
    LET f == p[1] \div p[2]
        twice == RSub(RMul(Int2Rat(2), p), Int2Rat(2 * f))
    IN  IF RLt(twice, One) THEN f
        ELSE IF RLt(One, twice) THEN f + 1
        ELSE IF f % 2 = 0 THEN f ELSE f + 1
\* n_perm * 0.975 and n_perm * 0.025
UpperQuantile(n) == Rat(975 * n, 1000)
LowerQuantile(n) == Rat(25 * n, 1000)

\* time_ms = np.arange(-400, 1000, 20), indexed from 0
time_ms == [i \in 0..69 |-> -400 + 20 * i]

RECURSIVE SortAsc(_)
\* variant: the values of v in the order they were drawn
DrawOrder(v) == v

\* the values of v in ascending order: what indexing by np.argsort of the
\* (tie-averaged) ranks, or of the values, yields
SortAsc(v) ==
    IF v = <<>> THEN <<>>
    ELSE LET rest == SortAsc(Tail(v))
             k == Cardinality({i \in 1..Len(rest) : RLt(rest[i], Head(v))})
         IN  SubSeq(rest, 1, k) \o <<Head(v)>> \o SubSeq(rest, k + 1, Len(rest))

\* np.random.seed(42) and the generator's step: a full-period congruential
\* generator stands for the library's stream
Seeds == {42, 5, 77}
NextRandom(s) == (21 * s + 7) % 1024
RECURSIVE RandomStream(_, _)
\* the next k generator states after s
RandomStream(s, k) ==
    IF k = 0 THEN <<>>
    ELSE <<NextRandom(s)>> \o RandomStream(NextRandom(s), k - 1)
\* variant: the generator is seeded again before every call
RandomChoiceReseeded(s, n, k) ==
    LET st == RandomStream(42, k)
    IN  [idx |-> Vec([i \in 1..k |-> (st[i] * n) \div 1024 + 1]),
         rng |-> IF k = 0 THEN 42 ELSE st[k]]
\* np.random.choice(n, size=(k, 1), replace=True): k indices in 1..n
RandomChoice(s, n, k) ==
    LET st == RandomStream(s, k)
    IN  [idx |-> Vec([i \in 1..k |-> (st[i] * n) \div 1024 + 1]),
         rng |-> IF k = 0 THEN s ELSE st[k]]

\* per-subject channel-averaged correlations of a feature: subjects x
\* timepoints
ScorePatterns == {"equal", "early", "late", "mixed"}
ScorePattern(p) ==
    Mat([s \in 1..NSub |-> [t \in 1..NTP |->
      CASE p = "equal" -> <<1, 10>>
        [] p = "early" -> Int2Rat(s + NTP - t)
        [] p = "late" -> Int2Rat(s + t)
        [] OTHER -> Int2Rat(IF s = 1 THEN 3 * (NTP - t + 1) ELSE t)]])
\* which pattern each feature carries
ScoreLayouts == {<<"mixed", "early", "late">>, <<"equal", "mixed", "early">>,
                 <<"late", "early", "mixed">>}
\* numbers of resamples passed as n_perm
PermCounts == {2, 40}

\* np.mean(m, axis=0) of a subjects x timepoints matrix
SubjectMean(m) ==
    Vec([t \in 1..Cols(m) |->
      RDiv(RSum(Vec([s \in 1..Rows(m) |-> m[s][t]])), Int2Rat(Rows(m)))])
\* variant: the index of the peak instead of its time in ms
PeakIndex(mean) == ArgMax(mean) - 1
\* time_ms[np.argmax(mean)]
PeakLatency(mean) == time_ms[ArgMax(mean) - 1]
\* results[idx]: the rows of the resampled subjects
\* variant: the subjects are taken in their stored order, not as drawn
ResampleStored(m, idx) == Vec([i \in 1..Len(idx) |-> m[i]])
Resample(m, idx) == Vec([i \in 1..Len(idx) |-> m[idx[i]]])
\* the element at 0-based index i of the sorted draws, or the IndexError
SortedAt(v, i) ==
    IF i < Len(v) THEN [raised |-> "none", value |-> SortAsc(v)[i + 1]]
    ELSE [raised |-> "IndexError", value |-> Zero]

BootInit ==
    /\ EncodingIdle
    /\ PermIdle
    /\ n_perm \in PermCounts
    /\ rng \in Seeds
    /\ \E l \in ScoreLayouts :
          results_dict =
              Vec([f \in 1..NFeat |-> ScorePattern(l[((f - 1) % Len(l)) + 1])])
    /\ bpc = "accuracy" /\ feature = 1 /\ btp = 1 /\ perm = 1
    /\ bt_data = Zeros(NTP, n_perm) /\ bt_data_peaks = <<>>
    /\ feature_results = <<>> /\ ci_dict_all = <<>>
    /\ peak = 0
    /\ feature1 = 1 /\ feature2 = 1
    /\ peak_A = 0 /\ peak_B = 0 /\ feature_diff = 0
    /\ pairwise_p = <<>>

\* STEP 2.3: one draw of the accuracy bootstrap of timepoint btp
BootDraw ==
    /\ bpc = "accuracy"
    /\ \E c \in {RandomChoice(rng, NSub, NSub)} :
        LET results == results_dict[feature]
            perm_tp_data == Vec([i \in 1..NSub |-> results[c.idx[i]][btp]])
            mean_p_tp == RDiv(RSum(perm_tp_data), Int2Rat(NSub))
            lastPerm == perm = n_perm
        IN  /\ rng' = c.rng
            /\ bt_data' = [bt_data EXCEPT ![btp][perm] = mean_p_tp]
            /\ perm' = IF lastPerm THEN 1 ELSE perm + 1
            /\ btp' = IF ~lastPerm THEN btp
                      ELSE IF btp = NTP THEN 1 ELSE btp + 1
            /\ bpc' = IF lastPerm /\ btp = NTP THEN "accuracy_ci"
                      ELSE "accuracy"
            /\ feature_results' =
                 IF lastPerm /\ btp = NTP THEN Append(feature_results, <<>>)
                 ELSE feature_results
    /\ UNCHANGED <<permVars, dataVars, solverVars, sweepVars, n_perm, results_dict,
                   feature, bt_data_peaks, ci_dict_all, peak, feature1,
                   feature2, peak_A, peak_B, feature_diff, pairwise_p>>

\* STEP 2.4: the interval of timepoint btp
BootAccuracyCI ==
    /\ bpc = "accuracy_ci"
    /\ \E lower_CI \in {SortedAt(bt_data[btp], Ceil(LowerQuantile(n_perm)))},
          upper_CI \in {SortedAt(bt_data[btp], Ceil(UpperQuantile(n_perm)))} :
        IF lower_CI.raised # "none" \/ upper_CI.raised # "none"
        THEN /\ bpc' = "IndexError"
             /\ UNCHANGED <<feature_results, btp>>
        ELSE /\ feature_results' =
                   [feature_results EXCEPT ![feature] =
                       Append(@, <<lower_CI.value, upper_CI.value>>)]
             /\ btp' = IF btp = NTP THEN 1 ELSE btp + 1
             /\ bpc' = IF btp = NTP THEN "peak_start" ELSE "accuracy_ci"
    /\ UNCHANGED <<permVars, dataVars, solverVars, sweepVars, n_perm, rng, results_dict,
                   feature, perm, bt_data, bt_data_peaks, ci_dict_all, peak,
                   feature1, feature2, peak_A, peak_B, feature_diff,
                   pairwise_p>>

\* STEP 2.5: the observed peak latency of the feature
BootPeak ==
    /\ bpc = "peak_start"
    /\ peak' = PeakLatency(SubjectMean(results_dict[feature]))
    /\ bt_data_peaks' = Zeros(1, n_perm)[1]
    /\ perm' = 1
    /\ bpc' = "peak"
    /\ UNCHANGED <<permVars, dataVars, solverVars, sweepVars, n_perm, rng, results_dict,
                   feature, btp, bt_data, feature_results, ci_dict_all,
                   feature1, feature2, peak_A, peak_B, feature_diff,
                   pairwise_p>>

\* STEP 2.5: one draw of the peak bootstrap: whole subject rows
BootPeakDraw ==
    /\ bpc = "peak"
    /\ \E c \in {RandomChoice(rng, NSub, NSub)} :
        LET perm_peak_data == Resample(results_dict[feature], c.idx)
            perm_mean == SubjectMean(perm_peak_data)
        IN  /\ rng' = c.rng
            /\ bt_data_peaks' =
                 [bt_data_peaks EXCEPT ![perm] = Int2Rat(PeakLatency(perm_mean))]
            /\ perm' = IF perm = n_perm THEN 1 ELSE perm + 1
            /\ bpc' = IF perm = n_perm THEN "peak_ci" ELSE "peak"
    /\ UNCHANGED <<permVars, dataVars, solverVars, sweepVars, n_perm, results_dict,
                   feature, btp, bt_data, feature_results, ci_dict_all, peak,
                   feature1, feature2, peak_A, peak_B, feature_diff,
                   pairwise_p>>

\* STEP 2.6: the [lower, peak, upper] triple; then the next feature
BootPeakCI ==
    /\ bpc = "peak_ci"
    /\ \E lower_CI \in
            {SortedAt(bt_data_peaks, RoundHalfEven(LowerQuantile(n_perm)))},
          upper_CI \in
            {SortedAt(bt_data_peaks, RoundHalfEven(UpperQuantile(n_perm)))} :
        IF lower_CI.raised # "none" \/ upper_CI.raised # "none"
        THEN /\ bpc' = "IndexError"
             /\ UNCHANGED <<ci_dict_all, feature, bt_data, feature1>>
        ELSE /\ ci_dict_all' =
                   Append(ci_dict_all, <<lower_CI.value, peak, upper_CI.value>>)
             /\ feature' = IF feature = NFeat THEN feature ELSE feature + 1
             /\ bt_data' = Zeros(NTP, n_perm)
             /\ feature1' = 1
             /\ bpc' = IF feature = NFeat THEN "feature1" ELSE "accuracy"
    /\ UNCHANGED <<permVars, dataVars, solverVars, sweepVars, n_perm, rng, results_dict,
                   btp, perm, bt_data_peaks, feature_results, peak, feature2,
                   peak_A, peak_B, feature_diff, pairwise_p>>

\* STEP 2.9: the outer loop over feature_A
BootFeatureA ==
    /\ bpc = "feature1"
    /\ IF feature1 > NFeat
       THEN /\ bpc' = "saved"
            /\ UNCHANGED <<peak_A, feature2>>
       ELSE /\ peak_A' = PeakLatency(SubjectMean(results_dict[feature1]))
            /\ feature2' = 1
            /\ bpc' = "feature2"
    /\ UNCHANGED <<permVars, dataVars, solverVars, sweepVars, n_perm, rng, results_dict,
                   feature, btp, perm, bt_data, bt_data_peaks, feature_results,
                   ci_dict_all, peak, feature1, peak_B, feature_diff,
                   pairwise_p>>

\* STEP 2.9: the inner loop over feature_B, up to and including feature_A,
\* which is skipped
BootFeatureB ==
    /\ bpc = "feature2"
    /\ IF feature2 > feature1
       THEN /\ feature1' = feature1 + 1
            /\ bpc' = "feature1"
            /\ UNCHANGED <<feature2, peak_B, feature_diff, bt_data_peaks, perm>>
       ELSE IF feature2 = feature1
       THEN /\ feature2' = feature2 + 1
            /\ UNCHANGED <<bpc, feature1, peak_B, feature_diff, bt_data_peaks,
                           perm>>
       ELSE \E pB \in {PeakLatency(SubjectMean(results_dict[feature2]))} :
            /\ peak_B' = pB
            /\ feature_diff' = peak_A - pB
            /\ bt_data_peaks' = Zeros(1, n_perm)[1]
            /\ perm' = 1
            /\ bpc' = "pair"
            /\ UNCHANGED <<feature1, feature2>>
    /\ UNCHANGED <<permVars, dataVars, solverVars, sweepVars, n_perm, rng, results_dict,
                   feature, btp, bt_data, feature_results, ci_dict_all, peak,
                   peak_A, pairwise_p>>

\* STEP 2.9: one draw of the pairwise bootstrap: the same resampled
\* subjects for both features
BootPairDraw ==
    /\ bpc = "pair"
    /\ \E c \in {RandomChoice(rng, NSub, NSub)} :
        LET perm_mean_A == SubjectMean(Resample(results_dict[feature1], c.idx))
            perm_mean_B == SubjectMean(Resample(results_dict[feature2], c.idx))
        IN  /\ rng' = c.rng
            /\ peak_A' = PeakLatency(perm_mean_A)
            /\ peak_B' = PeakLatency(perm_mean_B)
            /\ bt_data_peaks' =
                 [bt_data_peaks EXCEPT
                    ![perm] = Int2Rat(PeakLatency(perm_mean_A)
                                        - PeakLatency(perm_mean_B))]
            /\ perm' = IF perm = n_perm THEN 1 ELSE perm + 1
            /\ bpc' = IF perm = n_perm THEN "pair_ci" ELSE "pair"
    /\ UNCHANGED <<permVars, dataVars, solverVars, sweepVars, n_perm, results_dict,
                   feature, btp, bt_data, feature_results, ci_dict_all, peak,
                   feature1, feature2, feature_diff, pairwise_p>>

\* STEP 2.10: the pair's "ci" triple
BootPairCI ==
    /\ bpc = "pair_ci"
    /\ \E lower_CI \in {SortedAt(bt_data_peaks, Ceil(LowerQuantile(n_perm)))},
          upper_CI \in {SortedAt(bt_data_peaks, Ceil(UpperQuantile(n_perm)))} :
        IF lower_CI.raised # "none" \/ upper_CI.raised # "none"
        THEN /\ bpc' = "IndexError"
             /\ UNCHANGED <<pairwise_p, feature2>>
        ELSE /\ pairwise_p' =
                   Append(pairwise_p,
                          [A |-> feature1, B |-> feature2,
                           ci |-> <<lower_CI.value, feature_diff,
                                    upper_CI.value>>])
             /\ feature2' = feature2 + 1
             /\ bpc' = "feature2"
    /\ UNCHANGED <<permVars, dataVars, solverVars, sweepVars, n_perm, rng, results_dict,
                   feature, btp, perm, bt_data, bt_data_peaks, feature_results,
                   ci_dict_all, peak, feature1, peak_A, peak_B, feature_diff>>

BootNext ==
    \/ BootDraw
    \/ BootAccuracyCI
    \/ BootPeak
    \/ BootPeakDraw
    \/ BootPeakCI
    \/ BootFeatureA
    \/ BootFeatureB
    \/ BootPairDraw
    \/ BootPairCI

BootSpec == BootInit /\ [][BootNext]_vars

(***************************************************************************)
(* PermSpec: permutation_test on the two groups of one feature.  The       *)
(* features are processed alike and independently, one is modelled.        *)
(***************************************************************************)
\* values passed as n_perm and as tail; alpha = 0.05
FlipCounts == {1, 2, 3, 20, 40}
Tails == {"both", "right", "left"}
alpha == <<1, 20>>

\* results_f_vid and results_f_img: channel-averaged correlations of the
\* video and the image subjects, subjects x timepoints
GroupPatterns ==
    {"opposite", "identical", "shifted", "unequal", "crossing"}
GroupVid(p) ==
    CASE p = "opposite" -> Mat([s \in 1..NSub |-> [t \in 1..NTP |-> One]])
      [] p = "unequal" -> ScorePattern("late")
      [] p = "crossing" ->
           Mat([s \in 1..NSub |-> [t \in 1..NTP |->
             Int2Rat(IF t = 1 THEN s ELSE -s)]])
      [] OTHER -> ScorePattern("mixed")
GroupImg(p) ==
    CASE p = "opposite" -> Mat([s \in 1..NSub |-> [t \in 1..NTP |-> RNeg(One)]])
      [] p = "identical" -> ScorePattern("mixed")
      [] p = "unequal" -> SubSeq(ScorePattern("early"), 1, NSub - 1)
      [] OTHER -> ScorePattern("early")

\* what np.random.choice([-1, 1], size=(n_sub,)) yields after
\* np.random.seed(42), fixed before the first draw: "seeded" reads the signs
\* from the congruential generator, "free" is any pair of sign vectors, the
\* others fix the sign of subject s of group g in permutation k
SignOutcomes == {"seeded", "plus", "minus", "vid_plus", "img_plus", "alternate"}
\* numbers of permutations explored with every sign vector
FreeCounts == {1, 2}
FlipOutcomes(n) ==
    {[name |-> o, vid |-> <<>>, img |-> <<>>] : o \in SignOutcomes}
    \cup (IF n \in FreeCounts
          THEN {[name |-> "free", vid |-> sv, img |-> si] :
                  sv \in [1..NSub -> {-1, 1}], si \in [1..NSub -> {-1, 1}]}
          ELSE {})
FlipSign(o, k, g, s) ==
    CASE o = "plus" -> 1
      [] o = "minus" -> -1
      [] o = "vid_plus" -> IF g = "vid" THEN 1 ELSE -1
      [] o = "img_plus" -> IF g = "vid" THEN -1 ELSE 1
      [] OTHER -> IF (k + s + (IF g = "vid" THEN 0 ELSE k \div 2)) % 2 = 0
                  THEN 1 ELSE -1
\* the n signs of group g in permutation k; idx are the generator's draws
\* from 1..2
SignChoice(o, k, g, n, idx) ==
    CASE o.name = "seeded" -> Vec([s \in 1..n |-> IF idx[s] = 1 THEN -1 ELSE 1])
      [] o.name = "free" -> Vec([s \in 1..n |-> o[g][s]])
      [] OTHER -> Vec([s \in 1..n |-> FlipSign(o.name, k, g, s)])

\* variant: the sign alternates over the timepoints of a subject
FlipRowsAlternating(m, signs) ==
    Mat([s \in 1..Rows(m) |-> [t \in 1..Cols(m) |->
      RMul(Int2Rat(IF t % 2 = 0 THEN -signs[s] ELSE signs[s]), m[s][t])]])
\* np.multiply(results, np.broadcast_to(signs, (n_sub, timepoints)))
FlipRows(m, signs) ==
    Mat([s \in 1..Rows(m) |-> [t \in 1..Cols(m) |->
      RMul(Int2Rat(signs[s]), m[s][t])]])
\* u - v of two vectors
VecSub(u, v) == Vec([t \in 1..Len(u) |-> RSub(u[t], v[t])])
\* variant: the values are ranked as they are
RawMap(m) == m
\* np.absolute(stat_map)
AbsMap(m) == Mat([k \in 1..Rows(m) |-> [t \in 1..Cols(m) |-> RAbs(m[k][t])]])
\* column t of a matrix
Column(m, t) == Vec([k \in 1..Rows(m) |-> m[k][t]])
\* variant: ties take the smallest rank of their group
rankdata_min(v) ==
    Vec([i \in 1..Len(v) |->
      Int2Rat(Cardinality({j \in 1..Len(v) : RLt(v[j], v[i])}) + 1)])
\* scipy.stats.rankdata(v): ranks from 1, ties take the average rank
rankdata(v) ==
    Vec([i \in 1..Len(v) |->
      Rat(2 * Cardinality({j \in 1..Len(v) : RLt(v[j], v[i])})
            + Cardinality({j \in 1..Len(v) : v[j] = v[i]}) + 1, 2)])
\* np.apply_along_axis(rankdata, 0, m)
RankColumns(m) ==
    LET col == Vec([t \in 1..Cols(m) |-> rankdata(Column(m, t))])
    IN  Mat([k \in 1..Rows(m) |-> [t \in 1..Cols(m) |-> col[t][k]]])
\* variant: the observed statistic is not counted
PValueUncounted(rank, n) == RDiv(RSub(Int2Rat(n), rank), Int2Rat(n))
\* (sub_matrix - ranks) / n_perm, sub_matrix filled with n_perm + 1
\* variant: ranks counted from 0
PValueFromZero(rank, n) ==
    RDiv(RSub(Int2Rat(n + 1), RSub(rank, Int2Rat(1))), Int2Rat(n))
PValue(rank, n) == RDiv(RSub(Int2Rat(n + 1), rank), Int2Rat(n))

RECURSIVE CumMin(_, _)
\* np.minimum.accumulate(v[::-1])[::-1] at index i
CumMin(v, i) ==
    IF i = Len(v) THEN v[i]
    ELSE LET rest == CumMin(v, i + 1)
         IN  IF RLt(v[i], rest) THEN v[i] ELSE rest
\* variant: the p-values are compared with the level as they are
fdrcorrection_none(pvals, level) ==
    [rejected |-> Vec([t \in 1..Len(pvals) |-> RLe(pvals[t], level)]),
     pvals_corrected |-> pvals]
\* statsmodels fdrcorrection(pvals, alpha, method='indep', is_sorted=False)
fdrcorrection(pvals, level) ==
    LET m == Len(pvals)
        pvals_sorted == SortAsc(pvals)
        ecdffactor == [i \in 1..m |-> Rat(i, m)]
        reject == {i \in 1..m :
                     RLe(pvals_sorted[i], RMul(ecdffactor[i], level))}
        rejectmax == IF reject = {} THEN 0
                     ELSE CHOOSE i \in reject : \A j \in reject : j <= i
        pvals_corrected_raw ==
            Vec([i \in 1..m |-> RDiv(pvals_sorted[i], ecdffactor[i])])
        pvals_corrected ==
            [i \in 1..m |->
               LET c == CumMin(pvals_corrected_raw, i)
               IN  IF RLt(One, c) THEN One ELSE c]
        position == [t \in 1..m |->
                       CHOOSE i \in 1..m :
                           /\ pvals_sorted[i] = pvals[t]
                           /\ \A j \in 1..(i - 1) : pvals_sorted[j] # pvals[t]]
    IN  [rejected |-> Vec([t \in 1..m |-> position[t] <= rejectmax]),
         pvals_corrected |-> Vec([t \in 1..m |-> pvals_corrected[position[t]]])]

PermInit ==
    /\ EncodingIdle
    /\ BootLocalsIdle
    /\ n_perm \in FlipCounts
    /\ tail \in Tails
    /\ flips \in FlipOutcomes(n_perm)
    /\ rng \in (IF flips.name = "seeded" THEN Seeds ELSE {0})
    /\ \E p \in GroupPatterns :
          /\ results_f_vid = GroupVid(p)
          /\ results_f_img = GroupImg(p)
    /\ ppc = "observed" /\ permutation = 1
    /\ stat_map = <<>> /\ p_values = <<>> /\ stats_results = <<>>

\* stat_map = np.zeros(...); stat_map[0, :] = mean_orig_vid - mean_orig_img
PermObserved ==
    /\ ppc = "observed"
    /\ LET mean_orig_vid == SubjectMean(results_f_vid)
           mean_orig_img == SubjectMean(results_f_img)
           t_stat == VecSub(mean_orig_vid, mean_orig_img)
       IN  stat_map' = [Zeros(n_perm, NTP) EXCEPT ![1] = t_stat]
    /\ permutation' = 1
    /\ ppc' = "permute"
    /\ UNCHANGED <<dataVars, solverVars, sweepVars, bootVars, tail, flips,
                   results_f_vid, results_f_img, p_values, stats_results>>

\* one pass of: for permutation in range(1, n_perm)
PermFlip ==
    /\ ppc = "permute"
    /\ permutation < n_perm
    /\ \E c_vid \in {RandomChoice(rng, 2, Rows(results_f_vid))} :
       \E c_img \in {RandomChoice(c_vid.rng, 2, Rows(results_f_img))} :
          LET perm_vid == SignChoice(flips, permutation, "vid",
                                     Rows(results_f_vid), c_vid.idx)
              perm_img == SignChoice(flips, permutation, "img",
                                     Rows(results_f_img), c_img.idx)
              permutation_mat_vid == FlipRows(results_f_vid, perm_vid)
              permutation_mat_img == FlipRows(results_f_img, perm_img)
              mean_orig_vid == SubjectMean(permutation_mat_vid)
              mean_orig_img == SubjectMean(permutation_mat_img)
              t_stat == VecSub(mean_orig_img, mean_orig_vid)
          IN  /\ stat_map' = [stat_map EXCEPT ![permutation + 1] = t_stat]
              /\ rng' = IF flips.name = "seeded" THEN c_img.rng ELSE rng
    /\ permutation' = permutation + 1
    /\ UNCHANGED <<dataVars, solverVars, sweepVars, n_perm, results_dict, bpc,
                   feature, btp, perm, bt_data, bt_data_peaks,
                   feature_results, ci_dict_all, peak, feature1, feature2,
                   peak_A, peak_B, feature_diff, pairwise_p, tail, flips,
                   results_f_vid, results_f_img, ppc, p_values, stats_results>>

\* step 2.4: ranks over the permutations, p_values = p_map[0, :]
PermRank ==
    /\ ppc = "permute"
    /\ permutation >= n_perm
    /\ IF tail \in {"right", "both"}
       THEN \E ranks \in {IF tail = "right" THEN RankColumns(stat_map)
                           ELSE RankColumns(AbsMap(stat_map))} :
               LET p_map == Mat([k \in 1..n_perm |-> [t \in 1..NTP |->
                              PValue(ranks[k][t], n_perm)]])
               IN  /\ p_values' = p_map[1]
                   /\ ppc' = "fdr"
       ELSE /\ ppc' = "UnboundLocalError"
            /\ UNCHANGED p_values
    /\ UNCHANGED <<dataVars, solverVars, sweepVars, bootVars, tail, flips,
                   results_f_vid, results_f_img, permutation, stat_map,
                   stats_results>>

\* step 2.5: Benjamini-Hochberg correction and the result dictionary
PermFDR ==
    /\ ppc = "fdr"
    /\ \E r \in {fdrcorrection(p_values, alpha)} :
          stats_results' =
              [Uncorrected_p_values_map |-> p_values,
               Corrected_p_values_map |-> r.pvals_corrected,
               Boolean_statistical_map |-> r.rejected]
    /\ ppc' = "done"
    /\ UNCHANGED <<dataVars, solverVars, sweepVars, bootVars, tail, flips,
                   results_f_vid, results_f_img, permutation, stat_map,
                   p_values>>

PermNext ==
    \/ PermObserved
    \/ PermFlip
    \/ PermRank
    \/ PermFDR

PermSpec == PermInit /\ [][PermNext]_vars

(***************************************************************************)
(* PrepSpec: feature_extraction for one feature, then load_features.  A    *)
(* data set is the list of its videos together with the data the scaler    *)
(* and the PCA that produced it were fitted on.                            *)
(***************************************************************************)
\* number of videos
NVid == 4
feature_names == {"edges", "skeleton", "world_normal", "lighting",
                  "scene_depth", "reflectance", "action"}
\* the features whose branch calls pca
ReducedFeatures == {"edges", "world_normal", "lighting", "scene_depth",
                    "reflectance"}
\* values passed as pca_method
PcaMethods == {"linear", "nonlinear", "none"}
\* the split labels of the videos: every split has a video
Splits == {sp \in [1..NVid -> {0, 1, 2}] : \A l \in {0, 1, 2} :
             \E v \in 1..NVid : sp[v] = l}
RECURSIVE SplitRowsTo(_, _, _)
\* split_data[:, 0][split_data[:, 1] == label], over the first n videos
SplitRowsTo(sp, label, n) ==
    IF n = 0 THEN <<>>
    ELSE SplitRowsTo(sp, label, n - 1)
         \o (IF sp[n] = label THEN <<n>> ELSE <<>>)
\* features_flattened[train_data] and the like
SplitRows(sp, label) == SplitRowsTo(sp, label, NVid)
RawSet(rows) == [rows |-> rows, scaler |-> <<>>, pca |-> <<>>]
\* StandardScaler().fit(x)
StandardScalerFit(x) == [fitted_on |-> x.rows]
\* scaler.transform(x)
ScalerTransform(sc, x) == [x EXCEPT !.scaler = sc.fitted_on]
\* PCA(...) or KernelPCA(...), then pca_image.fit(x)
PCAFit(method, x) == [method |-> method, fitted_on |-> x]
\* pca_image.transform(x)
PCATransform(p, x) == [x EXCEPT !.pca = p]
\* variant: the test set is returned second
PcaReturnTestSecond(pca_train, pca_val, pca_test) ==
    <<pca_train, pca_test, pca_val>>
\* return pca_train, pca_val, pca_test
PcaReturn(pca_train, pca_val, pca_test) == <<pca_train, pca_val, pca_test>>
EstimatorCall(object, method, data) ==
    [object |-> object, method |-> method, data |-> data]

PrepInit ==
    /\ SweepIdle
    /\ BootIdle
    /\ PermIdle
    /\ prep_pc = "split"
    /\ split_data \in Splits
    /\ prep_feature \in feature_names
    /\ pca_method \in PcaMethods
    /\ scaler = <<>> /\ pca_image = <<>> /\ scaled_sets = <<>>
    /\ estimator_calls = <<>>
    /\ datasets = <<>> /\ pca_features = <<>> /\ X_prep = <<>>

\* a feature that is not reduced: split data, datasets.append three times
PrepSplitPlain ==
    /\ prep_pc = "split"
    /\ prep_feature \notin ReducedFeatures
    /\ LET features_train == RawSet(SplitRows(split_data, 0))
           features_val == RawSet(SplitRows(split_data, 1))
           features_test == RawSet(SplitRows(split_data, 2))
       IN  datasets' = <<features_train, features_val, features_test>>
    /\ prep_pc' = "store"
    /\ UNCHANGED <<impl, X_train, X_val, y_train, y_val, explained_var,
                   solverVars, sweepVars, statsVars, split_data, prep_feature,
                   pca_method, scaler, pca_image, scaled_sets,
                   estimator_calls, pca_features, X_prep>>

\* pca: the scaler is fitted and the three sets are scaled
PrepScale ==
    /\ prep_pc = "split"
    /\ prep_feature \in ReducedFeatures
    /\ LET features_train == RawSet(SplitRows(split_data, 0))
           features_val == RawSet(SplitRows(split_data, 1))
           features_test == RawSet(SplitRows(split_data, 2))
           fitted == StandardScalerFit(features_train)
       IN  /\ scaler' = fitted
           /\ scaled_sets' =
                [scaled_train |-> ScalerTransform(fitted, features_train),
                 scaled_test |-> ScalerTransform(fitted, features_test),
                 scaled_val |-> ScalerTransform(fitted, features_val)]
    /\ estimator_calls' = estimator_calls \o
          <<EstimatorCall("scaler", "fit", "train"),
            EstimatorCall("scaler", "transform", "train"),
            EstimatorCall("scaler", "transform", "test"),
            EstimatorCall("scaler", "transform", "val")>>
    /\ prep_pc' = "pca_fit"
    /\ UNCHANGED <<impl, X_train, X_val, y_train, y_val, explained_var,
                   solverVars, sweepVars, statsVars, split_data, prep_feature,
                   pca_method, pca_image, datasets, pca_features, X_prep>>

\* pca: the PCA object is built for the method and fitted
PrepPcaFit ==
    /\ prep_pc = "pca_fit"
    /\ IF pca_method \in {"linear", "nonlinear"}
       THEN /\ pca_image' = PCAFit(pca_method, scaled_sets.scaled_train)
            /\ estimator_calls' =
                  Append(estimator_calls, EstimatorCall("pca", "fit", "train"))
            /\ prep_pc' = "pca_transform"
       ELSE /\ prep_pc' = "UnboundLocalError"
            /\ UNCHANGED <<pca_image, estimator_calls>>
    /\ UNCHANGED <<impl, X_train, X_val, y_train, y_val, explained_var,
                   solverVars, sweepVars, statsVars, split_data, prep_feature,
                   pca_method, scaler, scaled_sets, datasets, pca_features,
                   X_prep>>

\* pca: the three sets are projected and returned; datasets.append
PrepPcaTransform ==
    /\ prep_pc = "pca_transform"
    /\ LET pca_train == PCATransform(pca_image, scaled_sets.scaled_train)
           pca_test == PCATransform(pca_image, scaled_sets.scaled_test)
           pca_val == PCATransform(pca_image, scaled_sets.scaled_val)
           returned == PcaReturn(pca_train, pca_val, pca_test)
           pca_features_train == returned[1]
           pca_features_val == returned[2]
           pca_features_test == returned[3]
       IN  datasets' = <<pca_features_train, pca_features_val,
                         pca_features_test>>
    /\ estimator_calls' = estimator_calls \o
          <<EstimatorCall("pca", "transform", "train"),
            EstimatorCall("pca", "transform", "test"),
            EstimatorCall("pca", "transform", "val")>>
    /\ prep_pc' = "store"
    /\ UNCHANGED <<impl, X_train, X_val, y_train, y_val, explained_var,
                   solverVars, sweepVars, statsVars, split_data, prep_feature,
                   pca_method, scaler, pca_image, scaled_sets, pca_features,
                   X_prep>>

\* pca_features[feature] = datasets, and the dictionary is saved
PrepStore ==
    /\ prep_pc = "store"
    /\ pca_features' = datasets
    /\ prep_pc' = "saved"
    /\ UNCHANGED <<impl, X_train, X_val, y_train, y_val, explained_var,
                   solverVars, sweepVars, statsVars, split_data, prep_feature,
                   pca_method, scaler, pca_image, scaled_sets,
                   estimator_calls, datasets, X_prep>>

\* load_features(feature, featuresDir) of the search script
PrepLoad ==
    /\ prep_pc = "saved"
    /\ LET features == pca_features
       IN  X_prep' = [X_train |-> features[1], X_val |-> features[2],
                      X_test |-> features[3]]
    /\ prep_pc' = "loaded"
    /\ UNCHANGED <<impl, X_train, X_val, y_train, y_val, explained_var,
                   solverVars, sweepVars, statsVars, split_data, prep_feature,
                   pca_method, scaler, pca_image, scaled_sets,
                   estimator_calls, datasets, pca_features>>

PrepNext ==
    \/ PrepSplitPlain
    \/ PrepScale
    \/ PrepPcaFit
    \/ PrepPcaTransform
    \/ PrepStore
    \/ PrepLoad

PrepSpec == PrepInit /\ [][PrepNext]_vars

(***************************************************************************)
(* StatsSpec: the two statistics scripts, either one run from its start.   *)
(***************************************************************************)
StatsInit == BootInit \/ PermInit

StatsNext ==
    \/ BootNext
    \/ PermNext

StatsSpec == StatsInit /\ [][StatsNext]_vars

(***************************************************************************)
(* Claims about the solver, checked under Spec.                            *)
(***************************************************************************)
\* what predict and score multiply: the validation design and the model
ValDesign == concatenate_ones(X_val)
\* sum over samples of the squared residual of channel c on the validation
\* split, for the stored coefficients
ResidualSS(c) ==
    LET yhat == MatMul(ValDesign, regression.coefficients)
    IN  RSum(Vec([i \in 1..Rows(y_val[tp]) |->
          LET d == RSub(y_val[tp][i][c], yhat[i][c]) IN RMul(d, d)]))

\* C1: a channelwise score is, per channel, the root of the channel's summed
\* squared residuals divided by the number of samples (rows of Y); a
\* non-channelwise score is the root of the grand sum divided by
\* samples x channels.
C1_ScoreIsRMSE ==
    (call.op = "score" /\ call.raised = "none") =>
        LET y == y_val[tp]
        IN  IF call.channelwise
            THEN \A c \in 1..Cols(y) :
                   call.value[c] = RSqrt(RDiv(ResidualSS(c), Int2Rat(Rows(y))))
            ELSE call.value =
                   RSqrt(RDiv(RSum(Vec([c \in 1..Cols(y) |-> ResidualSS(c)])),
                              Int2Rat(Rows(y) * Cols(y))))

\* C2: in every fit the penalty block is sqrt(penalty) times the identity
\* with exactly the intercept's diagonal entry zeroed: every feature column
\* keeps sqrt(penalty), also when the intercept is disabled.
C2_OnlyInterceptUnpenalised ==
    call.op = "fit" =>
        \A i \in 1..Rows(penalty_matrix) : \A j \in 1..Cols(penalty_matrix) :
            penalty_matrix[i][j] =
                IF i = j /\ ~(regression.intercept /\ i = 1)
                THEN RSqrt(regression.alpha) ELSE Zero

\* C3: predict and score prepend the intercept column exactly when fit did,
\* so after a fit that stored coefficients they succeed for either
\* intercept setting.
C3_PredictScoreMatchFit ==
    (call.op \in {"predict", "score"} /\ regression.coefficients # <<>>) =>
        /\ call.raised = "none"
        /\ Cols(IF regression.intercept THEN ValDesign ELSE X_val)
             = Rows(regression.coefficients)

\* C4: after fit(X, Y, solver='lstsq') on a well-conditioned problem the
\* stored coefficients solve the augmented normal equations XtX * B = Xty,
\* as the 'cholesky' and 'solve' choices do.
C4_LstsqSolvesNormalEquations ==
    (call.op = "fit" /\ call.solver = "lstsq" /\ call.raised = "none"
       /\ PosDef(XtX)) =>
        /\ regression.coefficients # <<>>
        /\ MatMul(XtX, regression.coefficients) = Xty

\* tolerance of the comparison of a correlation with +1 or -1: the
\* quantisation of the two square roots and of the quotient
CorrTol == <<1, 4>>
\* column c of a matrix takes at least two values
NonConstant(m, c) == \E i \in 1..Rows(m) : m[i][c] # m[1][c]
\* C6: the correlation of a non-constant signal with itself is 1.0 and with
\* its negation -1.0, for every channel.
C6_SelfCorrelationIsOne ==
    call.op = "correlation" =>
        \A c \in 1..Cols(prediction) :
            NonConstant(prediction, c) =>
              /\ (\A i \in 1..Rows(prediction) :
                      prediction[i][c] = y_val[tp][i][c])
                   => RLe(RAbs(RSub(call.value[c], One)), CorrTol)
              /\ (\A i \in 1..Rows(prediction) :
                      prediction[i][c] = RNeg(y_val[tp][i][c]))
                   => RLe(RAbs(RAdd(call.value[c], One)), CorrTol)

\* the intercept-extended, un-augmented training design
OLSDesign == concatenate_ones(X_train)
SweepRow == IF impl = "EEG" THEN tp ELSE 1
\* C5: when the Cholesky fit of a pair raises, the failure is only reported
\* (no position or score changes), the same model is fitted again on the
\* same inputs with the general solve, and the pair is then predicted,
\* scored and recorded; the sweep is left by an exception only when the
\* fallback solve itself raises.
C5_Step ==
    /\ (pc = "fit" /\ pc' = "except") =>
          /\ call'.solver = "cholesky" /\ call'.raised = "LinAlgError"
          /\ regression' = OLS_pytorch(TRUE, alpha_space[a])
          /\ tp' = tp /\ a' = a /\ writes' = writes
    /\ pc = "except" =>
          /\ call'.op = "fit" /\ call'.solver = "solve"
          /\ regression'.alpha = regression.alpha
          /\ regression'.intercept = regression.intercept
          /\ XtX' = XtX /\ Xty' = Xty
          /\ tp' = tp /\ a' = a /\ writes' = writes
          /\ IF call'.raised = "none"
             THEN /\ pc' = "score"
                  /\ MatMul(XtX', regression'.coefficients) = Xty'
             ELSE pc' = "raised" /\ Singular(XtX)
    /\ (pc = "score" /\ call.solver = "solve") =>
          /\ pc' \in {"fit", "select"}
          /\ writes' = Append(writes, <<tp, a>>)
          /\ rmse'[SweepRow][a] = score(regression, X_val, y_val[tp], TRUE).value
          /\ corr'[SweepRow][a] = call'.value
    /\ pc' = "raised" => pc = "except"
    /\ pc' \in {"select", "done"} =>
          \A t \in 1..NTP, k \in 1..NAlpha :
              \E w \in 1..Len(writes') : writes'[w] = <<t, k>>
GridIndex(v, k) == k \in 1..NAlpha /\ alpha_space[k] = v
\* k is an index of a smallest / largest entry of the vector v
IsArgMin(v, k) == \A j \in 1..Len(v) : RLe(v[k], v[j])
IsArgMax(v, k) == \A j \in 1..Len(v) : RLe(v[j], v[k])

\* C8: for every timepoint (or layer) t, best_alpha_rmse[t] is the grid value
\* at an index minimising the channel-reduced RMSE over the penalties at t,
\* and best_alpha_corr[t] the grid value at an index maximising the
\* channel-reduced correlation at t; each depends on its own row only.
C8_BestAlphaPerTimepoint ==
    pc = "done" =>
        /\ Len(output.best_alpha_rmse) = NTP
        /\ Len(output.best_alpha_corr) = NTP
        /\ \A t \in 1..NTP :
            /\ \E k \in 1..NAlpha : /\ GridIndex(output.best_alpha_rmse[t], k)
                                    /\ IsArgMin(rmse_avg_chan[t], k)
            /\ \E k \in 1..NAlpha : /\ GridIndex(output.best_alpha_corr[t], k)
                                    /\ IsArgMax(corr_avg_chan[t], k)
\* selections that differ between the two metrics and between timepoints
C8_Witness ==
    /\ pc = "done"
    /\ \E t \in 1..NTP : output.best_alpha_rmse[t] # output.best_alpha_corr[t]
    /\ \E t, u \in 1..NTP : output.best_alpha_rmse[t] # output.best_alpha_rmse[u]
    /\ \E t, u \in 1..NTP : output.best_alpha_corr[t] # output.best_alpha_corr[u]

\* the mean over timepoints of the reduced score at penalty index k
TimeAverage(avg_chan, k) ==
    RDiv(RSum(Vec([t \in 1..NTP |-> avg_chan[t][k]])), Int2Rat(NTP))
\* C9: the aggregate best penalty is the grid value at an argmin (RMSE) /
\* argmax (correlation) over the penalties of the reduced score averaged
\* over all timepoints (or layers), whatever the per-timepoint selections.
C9_BestAlphaOnAverage ==
    pc = "done" =>
        /\ \E k \in 1..NAlpha :
              /\ GridIndex(output.best_alpha_a_rmse, k)
              /\ \A j \in 1..NAlpha :
                    RLe(TimeAverage(rmse_avg_chan, k), TimeAverage(rmse_avg_chan, j))
        /\ \E k \in 1..NAlpha :
              /\ GridIndex(output.best_alpha_a_corr, k)
              /\ \A j \in 1..NAlpha :
                    RLe(TimeAverage(corr_avg_chan, j), TimeAverage(corr_avg_chan, k))
\* per-timepoint selections disagree with each other, so the aggregate
\* cannot be read off them
C9_Witness ==
    /\ pc = "done"
    /\ \E t \in 1..NTP : output.best_alpha_rmse[t] # output.best_alpha_a_rmse
    /\ \E t \in 1..NTP : output.best_alpha_corr[t] # output.best_alpha_a_corr
    /\ \E j, k \in 1..NAlpha :
          RLt(TimeAverage(rmse_avg_chan, j), TimeAverage(rmse_avg_chan, k))

\* the vector of time-averaged reduced scores
TimeAverages(avg_chan) == Vec([k \in 1..NAlpha |-> TimeAverage(avg_chan, k)])
\* C10: among penalties tied at the minimum RMSE or maximum correlation, the
\* per-timepoint and the aggregate selection pick the lowest index, which
\* is the smallest penalty: the grid is strictly increasing and positive.
C10_TiesPickSmallestPenalty ==
    /\ \A k \in 1..NAlpha : RLt(Zero, alpha_space[k])
    /\ \A j, k \in 1..NAlpha : j < k => RLt(alpha_space[j], alpha_space[k])
    /\ pc = "done" =>
        \A j \in 1..NAlpha :
          /\ \A t \in 1..NTP :
               /\ IsArgMin(rmse_avg_chan[t], j) =>
                    RLe(output.best_alpha_rmse[t], alpha_space[j])
               /\ IsArgMax(corr_avg_chan[t], j) =>
                    RLe(output.best_alpha_corr[t], alpha_space[j])
          /\ IsArgMin(TimeAverages(rmse_avg_chan), j) =>
               RLe(output.best_alpha_a_rmse, alpha_space[j])
          /\ IsArgMax(TimeAverages(corr_avg_chan), j) =>
               RLe(output.best_alpha_a_corr, alpha_space[j])
\* two penalties tied at the optimum, per timepoint and on average, while
\* another timepoint has no tie
C10_Witness ==
    /\ pc = "done"
    /\ \E t \in 1..NTP : \E j, k \in 1..NAlpha :
          /\ j < k
          /\ IsArgMin(rmse_avg_chan[t], j) /\ IsArgMin(rmse_avg_chan[t], k)
          /\ IsArgMax(corr_avg_chan[t], j) /\ IsArgMax(corr_avg_chan[t], k)
          /\ output.best_alpha_rmse[t] = alpha_space[j]
    /\ \E t \in 1..NTP : \E j, k \in 1..NAlpha :
          RLt(rmse_avg_chan[t][j], rmse_avg_chan[t][k])
    /\ \E j, k \in 1..NAlpha :
          /\ j < k
          /\ IsArgMax(TimeAverages(corr_avg_chan), j)
          /\ IsArgMax(TimeAverages(corr_avg_chan), k)

\* sum over the channels of layer i of score[k][c] * w[c]
WeightedSum(layer_scores, w, k) ==
    RSum(Vec([c \in 1..Len(w) |-> RMul(layer_scores[1][k][c], w[c])]))
\* v is the ratio num / den
IsRatio(v, num, den) == den # Zero /\ RMul(v, den) = num
\* C11: in the deep-network search the reduced score of every layer and
\* penalty is the sum over channels of score * w divided by the sum of w,
\* w being that layer's weights (one per channel, positive sum), for RMSE
\* and correlation alike, and the selections are made on these values.
C11_WeightedReduction ==
    (pc = "done" /\ impl = "CNN") =>
        \A i \in 1..NTP :
            /\ Len(explained_var[i]) = Cols(y_val[i])
            /\ RLt(Zero, RSum(explained_var[i]))
            /\ \A k \in 1..NAlpha :
                /\ IsRatio(rmse_avg_chan[i][k],
                           WeightedSum(rmse_scores[i], explained_var[i], k),
                           RSum(explained_var[i]))
                /\ IsRatio(corr_avg_chan[i][k],
                           WeightedSum(corr_scores[i], explained_var[i], k),
                           RSum(explained_var[i]))
            /\ \E k \in 1..NAlpha :
                /\ output.best_alpha_rmse[i] = alpha_space[k]
                /\ \A j \in 1..NAlpha :
                     RLe(WeightedSum(rmse_scores[i], explained_var[i], k),
                         WeightedSum(rmse_scores[i], explained_var[i], j))
            /\ \E k \in 1..NAlpha :
                /\ output.best_alpha_corr[i] = alpha_space[k]
                /\ \A j \in 1..NAlpha :
                     RLe(WeightedSum(corr_scores[i], explained_var[i], j),
                         WeightedSum(corr_scores[i], explained_var[i], k))
\* a finished deep-network search whose layers carry different, non-flat
\* weights and where the weighted reduction differs from the plain mean
C11_Witness ==
    /\ pc = "done" /\ impl = "CNN"
    /\ \E i, j \in 1..NTP : explained_var[i] # explained_var[j]
    /\ \E i \in 1..NTP, k \in 1..NAlpha :
          /\ rmse_avg_chan[i][k] # ChannelMean(rmse_scores[i])[1][k]
          /\ rmse_avg_chan[i][k] # Zero

\* C12: the result of a feature holds under rmse_score and correlation the
\* full score tensor: the scores of every (timepoint or layer, penalty,
\* channel) triple that was swept, in both searches.
C12_OutputHoldsFullTensor ==
    pc = "done" =>
        /\ Len(output.rmse_score) = NTP
        /\ Len(output.correlation) = NTP
        /\ \A t \in 1..NTP, k \in 1..NAlpha :
            /\ output.rmse_score[t][k] =
                 (IF impl = "EEG" THEN rmse[t][k] ELSE rmse_scores[t][1][k])
            /\ output.correlation[t][k] =
                 (IF impl = "EEG" THEN corr[t][k] ELSE corr_scores[t][1][k])
            /\ Len(output.rmse_score[t][k]) = NChan
            /\ Len(output.correlation[t][k]) = NChan

(***************************************************************************)
(* Claims about the bootstrap, checked under BootSpec.                     *)
(***************************************************************************)
\* the draw at rank r (counted from 1) of the ascending draws v
AtRank(v, r) == SortAsc(v)[r]
\* the accuracy stage of the current feature raised the IndexError
AccuracyIndexError ==
    bpc = "IndexError" /\ Len(feature_results[feature]) < NTP
\* C13: the accuracy interval of every timepoint is [draw at rank
\* ceil(0.025 * n_perm), draw at rank ceil(0.975 * n_perm)] of the ascending
\* bootstrap means, ranks counted from 1, whenever those ranks exist.
C13_AccuracyIntervalRanks ==
    LET lo == Ceil(LowerQuantile(n_perm))
        up == Ceil(UpperQuantile(n_perm))
    IN  (lo \in 1..n_perm /\ up \in 1..n_perm) =>
          /\ ~AccuracyIndexError
          /\ bpc \in {"accuracy_ci", "peak_start", "peak", "peak_ci"} =>
               \A t \in 1..Len(feature_results[feature]) :
                   feature_results[feature][t] =
                       <<AtRank(bt_data[t], lo), AtRank(bt_data[t], up)>>

\* every subject has the same score at timepoint t of feature f
AllSubjectsEqual(f, t) ==
    \A s \in 1..NSub : results_dict[f][s][t] = results_dict[f][1][t]
\* C14: when all subjects have the same score v at a timepoint, the interval
\* of that timepoint is returned with lower = upper = v, for every
\* n_perm >= 1.
C14_EqualSubjectsInterval ==
    (bpc # "idle" /\ n_perm >= 1) =>
        /\ \A f \in 1..Len(feature_results) :
             \A t \in 1..Len(feature_results[f]) :
                 AllSubjectsEqual(f, t) =>
                     feature_results[f][t] =
                         <<results_dict[f][1][t], results_dict[f][1][t]>>
        /\ AccuracyIndexError =>
             ~AllSubjectsEqual(feature, Len(feature_results[feature]) + 1)

\* i is the first index of a largest entry of v
IsFirstArgMax(v, i) ==
    /\ \A j \in 1..Len(v) : RLe(v[j], v[i])
    /\ \A j \in 1..(i - 1) : RLt(v[j], v[i])
\* lookup[i] = -400 + 20 * i ms, for the index i (from 0) of a timepoint
LookupValues == {-400 + 20 * i : i \in 0..(NTP - 1)}
IsLookup(ms) == \E v \in LookupValues : ms = Int2Rat(v)
\* ms is the lookup of the first argmax of the mean of the subject rows idx
\* of feature f
IsPeakOf(ms, f, idx) ==
    \E i \in 1..NTP :
        /\ ms = -400 + 20 * (i - 1)
        /\ IsFirstArgMax(
             Vec([t \in 1..NTP |->
               RDiv(RSum(Vec([k \in 1..Len(idx) |-> results_dict[f][idx[k]][t]])),
                    Int2Rat(Len(idx)))]), i)
\* C15: the middle of a feature's [lower, peak, upper] triple is the lookup
\* of the first argmax of the across-subject mean; every bootstrap draw is
\* the lookup of the argmax of the mean of whole subject rows resampled
\* once; lower and upper are draws, hence lookup values (at most 70
\* timepoints).
C15_Step ==
    NTP <= 70 =>
      /\ bpc = "peak" =>
           \E idx \in [1..NSub -> 1..NSub] :
              \E ms \in LookupValues :
                 /\ bt_data_peaks'[perm] = Int2Rat(ms)
                 /\ IsPeakOf(ms, feature, idx)
      /\ (bpc = "peak_ci" /\ bpc' # "IndexError") =>
           LET triple == ci_dict_all'[Len(ci_dict_all')]
           IN  /\ Len(ci_dict_all') = feature
               /\ IsPeakOf(triple[2], feature, [s \in 1..NSub |-> s])
               /\ IsLookup(triple[1]) /\ IsLookup(triple[3])
               /\ \E k \in 1..n_perm : bt_data_peaks[k] = triple[1]
               /\ \E k \in 1..n_perm : bt_data_peaks[k] = triple[3]
C15_PeakTriple == [][C15_Step]_vars
\* triples were stored: one whose bounds differ, one whose peak is not the
\* first timepoint
C15_Witness ==
    /\ \E f \in 1..Len(ci_dict_all) : ci_dict_all[f][1] # ci_dict_all[f][3]
    /\ \E f \in 1..Len(ci_dict_all) : ci_dict_all[f][2] # -400

\* C16: the middle of every pair's "ci" triple is the observed peak latency
\* of feature A minus that of feature B, both taken on the original
\* subjects, however many pairs were processed before.
C16_PairPointEstimate ==
    \A k \in 1..Len(pairwise_p) :
        \E pA, pB \in LookupValues :
            /\ IsPeakOf(pA, pairwise_p[k].A, [s \in 1..NSub |-> s])
            /\ IsPeakOf(pB, pairwise_p[k].B, [s \in 1..NSub |-> s])
            /\ pairwise_p[k].ci[2] = pA - pB
(***************************************************************************)
(* Claims about the permutation test, checked under PermSpec.              *)
(***************************************************************************)
\* mean over the subjects of m at timepoint t, subject s multiplied by
\* signs[s]
SignedMean(m, signs, t) ==
    RDiv(RSum(Vec([s \in 1..Rows(m) |-> RMul(Int2Rat(signs[s]), m[s][t])])),
         Int2Rat(Rows(m)))
\* the means over the subjects of m at every timepoint, subject s multiplied
\* by signs[s]
SignedMeans(m, signs) == Vec([t \in 1..NTP |-> SignedMean(m, signs, t)])
\* the sign vectors of the subjects of m, and the one that flips nobody
SignVectors(m) == [1..Rows(m) -> {-1, 1}]
Unflipped(m) == [s \in 1..Rows(m) |-> 1]
\* C17: row 0 of the statistic map is the observed statistic, video mean
\* minus image mean of the unflipped data, and is never overwritten; every
\* row, once written, stays as it is and is a group-mean difference of data
\* in which every subject's whole timepoint vector is multiplied by one
\* sign, chosen per subject, per group and per permutation.
C17_Step ==
    stat_map' # <<>> =>
        /\ Rows(stat_map') = n_perm
        /\ stat_map'[1] =
              VecSub(SignedMeans(results_f_vid, Unflipped(results_f_vid)),
                     SignedMeans(results_f_img, Unflipped(results_f_img)))
        /\ stat_map # <<>> => stat_map'[1] = stat_map[1]
        /\ \A k \in 2..permutation :
              stat_map # <<>> => stat_map'[k] = stat_map[k]
        /\ permutation' > permutation =>
              \E vid_means \in {{SignedMeans(results_f_vid, sv) :
                                    sv \in SignVectors(results_f_vid)}},
                 img_means \in {{SignedMeans(results_f_img, si) :
                                    si \in SignVectors(results_f_img)}} :
                 \E mv \in vid_means, mi \in img_means :
                     stat_map'[permutation'] = VecSub(mv, mi)
C17_StatMapRows == [][C17_Step]_vars
\* the test finished with a non-zero observed row and two permuted rows that
\* differ from it and from each other
C17_Witness ==
    /\ ppc = "done" /\ n_perm >= 3
    /\ \E t \in 1..NTP : stat_map[1][t] # Zero
    /\ stat_map[2] # stat_map[1] /\ stat_map[3] # stat_map[2]

\* the values ranked at timepoint t: absolute when tail is 'both'
RankedColumn(t) ==
    Vec([k \in 1..n_perm |->
      IF tail = "both" THEN RAbs(stat_map[k][t]) ELSE stat_map[k][t]])
\* rank of the first entry of v: the mean of the places, counted from 1,
\* that the entries equal to it take in ascending order
ObservedRank(v) ==
    LET sorted == SortAsc(v)
        places == {i \in 1..Len(v) : sorted[i] = v[1]}
        first == CHOOSE i \in places : \A j \in places : i <= j
        last == CHOOSE i \in places : \A j \in places : j <= i
    IN  Rat(first + last, 2)
\* C18: the uncorrected p-value of every timepoint is (n_perm + 1 - r) /
\* n_perm, r the rank of row 0 within that timepoint's column, of absolute
\* values for tail 'both' and of raw values for tail 'right'.
C18_UncorrectedP ==
    (ppc \in {"fdr", "done"}) =>
        /\ tail \in {"both", "right"}
        /\ Len(p_values) = NTP
        /\ \A t \in 1..NTP :
              RMul(p_values[t], Int2Rat(n_perm)) =
                  RSub(Int2Rat(n_perm + 1), ObservedRank(RankedColumn(t)))
        /\ ppc = "done" => stats_results.Uncorrected_p_values_map = p_values
\* a two-sided test finished in which a negative permuted statistic outranks
\* the observed one, with p-values that differ between the timepoints
C18_Witness ==
    /\ ppc = "done" /\ tail = "both" /\ n_perm >= 3
    /\ p_values[1] # p_values[2]
    /\ \E k \in 2..n_perm :
          /\ RLt(stat_map[k][1], Zero)
          /\ RLt(RAbs(stat_map[1][1]), RAbs(stat_map[k][1]))

\* group A scores are all +1 and group B scores all -1
OppositeGroups ==
    /\ results_f_vid # <<>>
    /\ \A s \in 1..Rows(results_f_vid) : \A t \in 1..NTP :
          results_f_vid[s][t] = One
    /\ \A s \in 1..Rows(results_f_img) : \A t \in 1..NTP :
          results_f_img[s][t] = RNeg(One)
\* C19 as stated: with A all +1 and B all -1 the observed statistic is 2 at
\* every timepoint and every uncorrected p-value is 1 / n_perm, for every
\* n_perm and every outcome of the sign flips.
C19_MinimalP ==
    (OppositeGroups /\ ppc \in {"fdr", "done"}) =>
        \A t \in 1..NTP :
            /\ stat_map[1][t] = Int2Rat(2)
            /\ p_values[t] = Rat(1, n_perm)
\* number of permuted rows whose statistic at t ties the observed one
TiedRows(t) ==
    Cardinality({k \in 2..n_perm :
      IF tail = "both" THEN RAbs(stat_map[k][t]) = Int2Rat(2)
      ELSE stat_map[k][t] = Int2Rat(2)})
\* C19 amended: with A all +1 and B all -1 the observed statistic is 2 at
\* every timepoint, no permuted statistic exceeds it, and the uncorrected
\* p-value is (1 + k/2) / n_perm, k the number of permuted rows that tie the
\* observed statistic: 1 / n_perm exactly when no row ties.
C19_TiesRaiseP ==
    (OppositeGroups /\ ppc \in {"fdr", "done"}) =>
        \A t \in 1..NTP :
            /\ stat_map[1][t] = Int2Rat(2)
            /\ \A k \in 1..n_perm : RLe(RAbs(stat_map[k][t]), Int2Rat(2))
            /\ p_values[t] = Rat(2 + TiedRows(t), 2 * n_perm)
            /\ p_values[t] = Rat(1, n_perm) <=> TiedRows(t) = 0
\* the test finished on these groups with a permuted row that ties
C19_Witness ==
    /\ OppositeGroups /\ ppc = "done" /\ n_perm >= 2
    /\ TiedRows(1) >= 1
    /\ RLt(Rat(1, n_perm), p_values[1])

\* the two groups' score matrices are identical
IdenticalGroups == results_f_vid # <<>> /\ results_f_vid = results_f_img
\* no timepoint is significant: every corrected p-value exceeds alpha
NoneSignificant ==
    \A t \in 1..NTP :
        /\ ~stats_results.Boolean_statistical_map[t]
        /\ RLt(alpha, stats_results.Corrected_p_values_map[t])
\* C20 as stated: with A = B the observed statistic is 0 at every timepoint
\* and no timepoint is significant after the correction at alpha = 0.05, for
\* every n_perm and every outcome of the sign flips.
C20_IdenticalNotSignificant ==
    IdenticalGroups =>
        /\ stat_map # <<>> => \A t \in 1..NTP : stat_map[1][t] = Zero
        /\ ppc = "done" => NoneSignificant
\* every permuted statistic is negative at every timepoint
AllPermutedNegative ==
    \A k \in 2..n_perm : \A t \in 1..NTP : RLt(stat_map[k][t], Zero)
\* C20 amended: with A = B the observed statistic is 0 at every timepoint;
\* with tail 'both' every uncorrected p-value is at least (n_perm + 1) /
\* (2 * n_perm) and no timepoint is significant; with tail 'right', n_perm
\* >= 20 and every permuted statistic negative, every p-value is 1 / n_perm
\* and every timepoint is significant.
C20_TwoSidedNotSignificant ==
    IdenticalGroups =>
        /\ stat_map # <<>> => \A t \in 1..NTP : stat_map[1][t] = Zero
        /\ (ppc = "done" /\ tail = "both") =>
              /\ NoneSignificant
              /\ \A t \in 1..NTP :
                    RLe(Rat(n_perm + 1, 2 * n_perm), p_values[t])
        /\ (ppc = "done" /\ tail = "right" /\ n_perm >= 20
              /\ AllPermutedNegative) =>
              \A t \in 1..NTP :
                  /\ p_values[t] = Rat(1, n_perm)
                  /\ stats_results.Boolean_statistical_map[t]
\* a two-sided test of identical groups finished after 20 permutations whose
\* statistics are all negative
C20_Witness ==
    /\ IdenticalGroups /\ ppc = "done" /\ tail = "both" /\ n_perm >= 20
    /\ AllPermutedNegative

\* number of timepoints whose uncorrected p-value is at most that of u
PRank(p, u) == Cardinality({v \in 1..Len(p) : RLe(p[v], p[u])})
\* the Benjamini-Hochberg values p[u] * m / rank(u) of the timepoints u whose
\* p-value is at least that of t, and 1
BHCandidates(p, t) ==
    {One} \cup {RDiv(RMul(p[u], Int2Rat(Len(p))), Int2Rat(PRank(p, u))) :
                  u \in {v \in 1..Len(p) : RLe(p[t], p[v])}}
IndicesInvalid ==
    \/ Ceil(LowerQuantile(n_perm)) >= n_perm
    \/ Ceil(UpperQuantile(n_perm)) >= n_perm
\* no interval has been stored
NoIntervalStored ==
    /\ \A f \in 1..Len(feature_results) : feature_results[f] = <<>>
    /\ ci_dict_all = <<>>
    /\ pairwise_p = <<>>
\* C22: when n_perm is too small for the percentile indices, the bootstrap
\* stops with the InsufficientSamples condition, and no interval is stored.
C22_InsufficientSamples ==
    (bpc # "idle" /\ IndicesInvalid) =>
        /\ bpc \in {"accuracy", "accuracy_ci", "InsufficientSamples"}
        /\ NoIntervalStored

(***************************************************************************)
(* Claims about both statistics scripts, checked under StatsSpec.          *)
(***************************************************************************)
\* the generator state k variates after s
Advance(s, k) == IF k = 0 THEN s ELSE RandomStream(s, k)[k]
\* the index in 1..n that the i-th variate after s selects
StreamIndex(s, i, n) == (Advance(s, i) * n) \div 1024 + 1
\* how many variates the step about to run draws
DrawCount ==
    IF bpc \in {"accuracy", "peak", "pair"} THEN NSub
    ELSE IF ppc = "permute" /\ permutation < n_perm /\ flips.name = "seeded"
         THEN Rows(results_f_vid) + Rows(results_f_img)
    ELSE 0
\* the generator holds its seeded state and nothing has been drawn
SeedFixed ==
    \/ /\ bpc = "accuracy" /\ rng \in Seeds
       /\ bt_data = Zeros(NTP, n_perm) /\ perm = 1 /\ btp = 1 /\ feature = 1
    \/ /\ ppc = "observed" /\ stat_map = <<>>
       /\ flips.name = "seeded" => rng \in Seeds
\* C23: both procedures start from the seeded generator state before their
\* first draw; afterwards the generator only moves forward along its stream,
\* by the number of variates each step draws, and is never set again; every
\* draw is the one the generator state selects, so the intervals, p-values
\* and masks are a function of the inputs.
C23_Step ==
    /\ rng' = Advance(rng, DrawCount)
    /\ flips' = flips /\ n_perm' = n_perm
    /\ bpc = "accuracy" =>
          bt_data'[btp][perm] =
              RDiv(RSum(Vec([i \in 1..NSub |->
                     results_dict[feature][StreamIndex(rng, i, NSub)][btp]])),
                   Int2Rat(NSub))
    /\ (ppc = "permute" /\ permutation < n_perm /\ flips.name = "seeded") =>
          LET nv == Rows(results_f_vid)
              sv == [s \in 1..nv |->
                       IF StreamIndex(rng, s, 2) = 1 THEN -1 ELSE 1]
              si == [s \in 1..Rows(results_f_img) |->
                       IF StreamIndex(rng, nv + s, 2) = 1 THEN -1 ELSE 1]
          IN  stat_map'[permutation + 1] =
                  VecSub(SignedMeans(results_f_img, si),
                         SignedMeans(results_f_vid, sv))
IsSplit(rows, label) ==
    /\ \A i \in 1..(Len(rows) - 1) : rows[i] < rows[i + 1]
    /\ {rows[i] : i \in 1..Len(rows)} =
          {v \in 1..NVid : split_data[v] = label}
\* positions of the calls of a method of an object in the history
CallsOf(object, method) ==
    {i \in 1..Len(estimator_calls) :
        /\ estimator_calls[i].object = object
        /\ estimator_calls[i].method = method}
\* the object was fitted at most once, on the training split, before each
\* of its transforms
FittedOnceOnTrain(object) ==
    /\ Cardinality(CallsOf(object, "fit")) <= 1
    /\ \A i \in CallsOf(object, "fit") : estimator_calls[i].data = "train"
    /\ \A j \in CallsOf(object, "transform") :
          \E i \in CallsOf(object, "fit") : i < j
\* d is the split label scaled by the scaler fitted on the training videos
\* and projected by the PCA fitted on the scaled training set
IsReduced(d, label) ==
    /\ IsSplit(d.rows, label)
    /\ IsSplit(d.scaler, 0)
    /\ IsSplit(d.pca.fitted_on.rows, 0)
    /\ IsSplit(d.pca.fitted_on.scaler, 0)
    /\ d.pca.fitted_on.pca = <<>>
\* C24: for a reduced feature the scaler and the PCA are each fitted once,
\* on the training split, before any of their transforms; validation and
\* test are transformed with the training-fitted scaler and PCA; the triple
\* is stored and read in the order train, validation, test.
C24_FitOnTrainOnly ==
    /\ FittedOnceOnTrain("scaler")
    /\ FittedOnceOnTrain("pca")
    /\ (prep_pc \in {"store", "saved", "loaded"}
          /\ prep_feature \in ReducedFeatures) =>
          /\ Cardinality(CallsOf("scaler", "fit")) = 1
          /\ Cardinality(CallsOf("pca", "fit")) = 1
          /\ Len(datasets) = 3
          /\ IsReduced(datasets[1], 0)
          /\ IsReduced(datasets[2], 1)
          /\ IsReduced(datasets[3], 2)
    /\ prep_pc \in {"saved", "loaded"} => pca_features = datasets
    /\ prep_pc = "loaded" =>
          /\ X_prep.X_train = datasets[1] /\ IsSplit(X_prep.X_train.rows, 0)
          /\ X_prep.X_val = datasets[2] /\ IsSplit(X_prep.X_val.rows, 1)
          /\ X_prep.X_test = datasets[3] /\ IsSplit(X_prep.X_test.rows, 2)
\* a reduced feature was prepared and read back, validation and test
\* holding different videos, more than one of them in some split
C24_Witness ==
    /\ prep_pc = "loaded"
    /\ prep_feature \in ReducedFeatures
    /\ Len(estimator_calls) = 8
    /\ X_prep.X_val.rows # X_prep.X_test.rows
    /\ Len(X_prep.X_test.rows) > 1

\* arr holds n rows of one cell per penalty and channel of the row's
\* timepoint or layer t0, t0 + 1, ...
HasShape(arr, n, t0) ==
    /\ Len(arr) = n
    /\ \A r \in 1..n :
          /\ Len(arr[r]) = NAlpha
          /\ \A k \in 1..NAlpha : Len(arr[r][k]) = Cols(y_train[t0 + r - 1])
\* the arrays named rmse and corr have the shape they are allocated with
Allocated(r, c) ==
    IF impl = "EEG" THEN HasShape(r, NTP, 1) /\ HasShape(c, NTP, 1)
    ELSE HasShape(r, 1, tp) /\ HasShape(c, 1, tp)
\* the cells of arr other than those of row r and penalty k are those of old
OnlyCellChanged(arr, old, r, k) ==
    /\ Len(arr) = Len(old)
    /\ \A i \in 1..Len(old) : \A j \in 1..NAlpha :
          (i # r \/ j # k) => arr[i][j] = old[i][j]
\* C25: the score arrays have their final shape before the sweep over the
\* penalties starts (for the whole feature in the EEG search, for the layer
\* in the deep-network search) and keep it; every step that scores a pair
\* writes the cells of that pair only, inside the arrays, a pair never
\* twice; when the sweep completes every pair has been written, the pairs
\* solved by the fallback included.
C25_Step ==
    /\ (impl = "EEG" \/ pc # "fit" \/ a # 1) => Allocated(rmse, corr)
    /\ (pc = "fit" /\ a = 1) =>
          /\ Allocated(rmse', corr')
          /\ \A w \in 1..Len(writes) : writes[w][1] # tp
    /\ (pc = "score" /\ pc' # "raised") =>
          /\ tp \in 1..NTP /\ a \in 1..NAlpha
          /\ \A w \in 1..Len(writes) : writes[w] # <<tp, a>>
          /\ writes' = Append(writes, <<tp, a>>)
          /\ Allocated(rmse, corr)
          /\ HasShape(rmse', Len(rmse), IF impl = "EEG" THEN 1 ELSE tp)
          /\ HasShape(corr', Len(corr), IF impl = "EEG" THEN 1 ELSE tp)
          /\ OnlyCellChanged(rmse', rmse, IF impl = "EEG" THEN tp ELSE 1, a)
          /\ OnlyCellChanged(corr', corr, IF impl = "EEG" THEN tp ELSE 1, a)
    /\ (pc # "score" \/ pc' = "raised") => writes' = writes
    /\ (pc # "score" /\ ~(impl = "CNN" /\ pc = "fit" /\ a = 1)) =>
          rmse' = rmse /\ corr' = corr
    /\ pc' = "select" =>
          /\ Len(writes') = NTP * NAlpha
          /\ \A t \in 1..NTP, k \in 1..NAlpha :
                \E w \in 1..Len(writes') : writes'[w] = <<t, k>>
          /\ impl = "CNN" =>
                /\ Len(rmse_scores') = NTP /\ Len(corr_scores') = NTP
                /\ \A t \in 1..NTP : /\ HasShape(rmse_scores'[t], 1, t)
                                     /\ HasShape(corr_scores'[t], 1, t)
C25_EveryCellWrittenOnce == [][C25_Step]_vars
\* a sweep completed whose last pair was solved by the fallback
C25_Witness ==
    /\ pc = "done"
    /\ call.solver = "solve"
    /\ Len(writes) = NTP * NAlpha

\* the statistical map whose permuted rows follow the convention of the
\* observed row (video minus image) for the same draws
SameConvention(m) ==
    Mat([k \in 1..Rows(m) |-> [t \in 1..Cols(m) |->
            IF k = 1 THEN m[k][t] ELSE RNeg(m[k][t])]])
\* the result dictionary the steps 2.4 and 2.5 compute from the map m
ResultsOf(m, tl) ==
    LET ranks == IF tl = "right" THEN RankColumns(m)
                 ELSE RankColumns(AbsMap(m))
        pv == Vec([t \in 1..NTP |-> PValue(ranks[1][t], Rows(m))])
        r == fdrcorrection(pv, alpha)
    IN  [Uncorrected_p_values_map |-> pv,
         Corrected_p_values_map |-> r.pvals_corrected,
         Boolean_statistical_map |-> r.rejected]
\* C26: for the same draws, the uncorrected p-values, the corrected
\* p-values and the significance mask of a finished test with tail 'both'
\* or 'right' equal those obtained when the permuted rows use the
\* convention of the observed row.
C26_SignConventionIrrelevant ==
    (ppc = "done" /\ tail \in {"both", "right"}) =>
        stats_results = ResultsOf(SameConvention(stat_map), tail)

\* the rows idx of the subjects-by-timepoints matrix m
SubjectRows(m, idx) == Vec([i \in 1..Len(idx) |-> m[idx[i]]])
\* the unordered pair of features {i, j} has an entry in p
PairEntries(p, i, j) ==
    {w \in 1..Len(p) : {p[w].A, p[w].B} = {i, j}}
\* C27: the pairwise comparison stores an entry for a pair of two distinct
\* features that has none yet; when the loops finish every unordered pair
\* of distinct features has exactly one entry (NFeat * (NFeat - 1) / 2
\* entries, none of a feature with itself); each draw of a pair takes one
\* set of resampled subject indices from the stream and applies it to both
\* features.
C27_Step ==
    /\ (bpc = "pair_ci" /\ bpc' = "feature2") =>
          /\ feature1 \in 1..NFeat /\ feature2 \in 1..NFeat
          /\ feature1 # feature2
          /\ PairEntries(pairwise_p, feature1, feature2) = {}
          /\ Len(pairwise_p') = Len(pairwise_p) + 1
          /\ pairwise_p'[Len(pairwise_p')].A = feature1
          /\ pairwise_p'[Len(pairwise_p')].B = feature2
    /\ bpc # "pair_ci" => pairwise_p' = pairwise_p
    /\ bpc' = "saved" =>
          /\ Len(pairwise_p') = (NFeat * (NFeat - 1)) \div 2
          /\ \A i \in 1..NFeat :
                /\ PairEntries(pairwise_p', i, i) = {}
                /\ \A j \in 1..NFeat :
                      i # j => Cardinality(PairEntries(pairwise_p', i, j)) = 1
    /\ bpc = "pair" =>
          \E c \in {RandomChoice(rng, NSub, NSub)} :
             /\ Len(c.idx) = NSub
             /\ rng' = c.rng
             /\ bt_data_peaks'[perm] =
                  Int2Rat(time_ms[ArgMax(SubjectMean(
                              SubjectRows(results_dict[feature1], c.idx))) - 1]
                          - time_ms[ArgMax(SubjectMean(
                              SubjectRows(results_dict[feature2], c.idx))) - 1])
             /\ \A k \in 1..n_perm :
                   k # perm => bt_data_peaks'[k] = bt_data_peaks[k]
C27_EveryPairOnce == [][C27_Step]_vars
\* all pairs were compared, the draws of the last pair not all the same
C27_Witness ==
    /\ bpc = "saved"
    /\ Len(pairwise_p) = (NFeat * (NFeat - 1)) \div 2
    /\ \E k \in 1..n_perm : bt_data_peaks[k] # bt_data_peaks[1]

\* C28: every interval stored by the bootstrap has its lower bound no
\* greater than its upper bound: the pairs of the accuracy stage, the
\* triples of the peak stage and the triples of the pairwise stage, in
\* every run that gets past the percentile indexing.
C28_LowerBelowUpper ==
    /\ \A f \in 1..Len(feature_results) :
          \A t \in 1..Len(feature_results[f]) :
             RLe(feature_results[f][t][1], feature_results[f][t][2])
    /\ \A f \in 1..Len(ci_dict_all) :
          RLe(ci_dict_all[f][1], ci_dict_all[f][3])
    /\ \A w \in 1..Len(pairwise_p) :
          RLe(pairwise_p[w].ci[1], pairwise_p[w].ci[3])
\* a finished run with an interval of each stage that is not a single point
C28_Witness ==
    /\ bpc = "saved"
    /\ \E f \in 1..NFeat, t \in 1..NTP :
          RLt(feature_results[f][t][1], feature_results[f][t][2])
    /\ \E f \in 1..NFeat : RLt(ci_dict_all[f][1], ci_dict_all[f][3])
    /\ \E w \in 1..Len(pairwise_p) :
          RLt(pairwise_p[w].ci[1], pairwise_p[w].ci[3])

\* C29: once computed, every uncorrected p-value lies between 1 / n_perm
\* and 1, for either tail, every number of permutations from 1 and every
\* pattern of ties among the rows of the map; none is 0.
C29_PValueRange ==
    ppc \in {"fdr", "done"} =>
        /\ Len(p_values) = NTP
        /\ \A t \in 1..NTP :
              /\ RLe(Rat(1, n_perm), p_values[t])
              /\ RLe(p_values[t], One)
              /\ p_values[t] # Zero
\* a finished one-sided test in which the observed statistic ties with a
\* permuted one at a timepoint, and a p-value strictly inside the range
C29_Witness ==
    /\ ppc = "done"
    /\ tail = "right"
    /\ n_perm > 1
    /\ \E t \in 1..NTP : \E k \in 2..n_perm : stat_map[k][t] = stat_map[1][t]
    /\ \E t \in 1..NTP :
          RLt(Rat(1, n_perm), p_values[t]) /\ RLt(p_values[t], One)

\* the coefficient matrix the solver branch of the last fit computes
Produced ==
    IF call.solver = "lstsq" THEN LstsqCoefficients(XtX, Xty)
    ELSE LinSolve(XtX, Xty)
\* C30: after a fit that returned without raising, with any solver, the
\* stored coefficients are the (features + intercept) x channels matrix
\* that call produced, never the initial empty list or an earlier result.
C30_FitStoresCoefficients ==
    (call.op = "fit" /\ call.raised = "none") =>
        /\ regression.coefficients # <<>>
        /\ Rows(regression.coefficients) = Cols(FitDesign(regression, X_train))
        /\ Cols(regression.coefficients) = Cols(y_train[tp])
        /\ regression.coefficients = Produced
=============================================================================
